---- MODULE Spec2Model ----
(***************************************************************************)
(* Frostbee: Zigbee temperature / humidity sensor (nRF52840 + SHT40) and   *)
(* its I2C bring-up programs.  One state machine per component:            *)
(*   SpecButton    reset button: edge interrupt, debounce, long press      *)
(*   SpecRecovery  05_soft_reset.c: soft reset + bounded retry loop        *)
(*   SpecSensor    sensor_read_only under sensor_mutex, two threads        *)
(*   SpecBattery   read_battery_voltage: divider pin, 5 samples, filter    *)
(*   SpecMeasure   sht40_measure: raw words to milli-units                 *)
(*   SpecScan      02_i2c_scan.c: address sweep                            *)
(*   SpecCrc       03_i2c_raw_100k.c: sht40_crc8 in sht40_read_serial      *)
(*   SpecBoot      main.c: main up to zigbee_enable                        *)
(*   SpecTwim      07_nrfx_twim.c: twim_write / twim_read and the handler  *)
(*   SpecLeave     reset button together with the network-leave signal     *)
(*   SpecExchange  03_i2c_raw_100k.c main: the command / response exchanges *)
(* The variables of the components a specification does not run stay at    *)
(* their parked values.                                                    *)
(***************************************************************************)
EXTENDS Integers, Sequences, FiniteSets, TLC

VARIABLES
    \* ---- reset button (main.c) ----
    now,                    \* k_uptime_get(), milliseconds
    pin,                    \* gpio_pin_get_dt(&reset_button): 0 released, 1 pressed
    button_pressed_state,
    button_press_time,
    long_press_handled,
    debounce_work,          \* {} idle, {t} scheduled to run at uptime t
    factory_reset_work,     \* {} idle, {t} scheduled to run at uptime t
    nextEdge,               \* {} or {t}: when the pin changes level next
    bootPin,                \* pin level read by button_init
    edgeLog,                \* uptimes of the pin edges so far
    reads,                  \* calls of sensor_read_only made by the button
    resets,                 \* do_factory_reset callbacks scheduled
    burst,                  \* bookkeeping of the current run of close edges
    transitions,            \* settled level changes debounce_handler has seen
    \* ---- 05_soft_reset.c main ----
    pc05,                   \* position in main
    attempt,                \* the loop variable of the retry loop
    ret,                    \* main's ret: result of the last sht40_read_serial
    verdict,                \* "none", "SUCCESS" or "FAILED": what main logged
    busLog,                 \* the bus traffic and sleeps so far, in order
    iter,                   \* passes of the final measuring loop
    buf05,                  \* the 6 bytes the last identity read received
    \* ---- sensor_read_only and its two callers (main.c) ----
    sensor_mutex,           \* "none" or the thread that owns it
    pcT,                    \* position of each thread
    alarms,                 \* pending ZBOSS alarms for sensor_read_and_update
    sht_sample,             \* what the driver holds after sensor_sample_fetch
    dev_ctx,                \* the measurement and battery attributes
    signals,                \* network signals handled so far
    \* ---- read_battery_voltage (main.c) ----
    pcB,                    \* position in read_battery_voltage
    vbat_enable,            \* configuration of the divider pin P0.02
    adc_ready,              \* device_is_ready(adc_dev)
    out_cfg_ok,             \* whether P0.02 accepts GPIO_OUTPUT_ACTIVE
    samples,                \* samples[0..i-1] taken so far
    avg_sample,
    battery_mv,
    retB,                   \* value returned by the last call
    \* ---- sht40_measure (03_i2c_raw_100k.c, 05_soft_reset.c) ----
    pcM,
    prog,                   \* which program's sht40_measure runs
    raw_temp,
    raw_hum,
    temp_milli,
    hum_milli,
    \* ---- 02_i2c_scan.c main ----
    pcS,
    i2c_ready,              \* device_is_ready(i2c_dev)
    acks,                   \* addresses that ACK a zero-length write now
    addr,
    found,
    reported,               \* addresses logged as found in this pass
    probed,                 \* addresses probed in this pass, in order
    pass,                   \* scan passes completed
    \* ---- sht40_read_serial and sht40_crc8 (03_i2c_raw_100k.c) ----
    pcC,
    sent,                   \* the two data words the sensor answers with
    noise,                  \* bit of the 6-byte frame flipped on the wire, or -1
    buf,                    \* the 6 bytes i2c_read delivered
    crc1,
    crc2,
    warn,                   \* words for which "CRC mismatch" was logged
    retC,                   \* value returned by sht40_read_serial
    \* ---- main (main.c) ----
    pcI,                    \* position in main
    hw,                     \* what the devices answer during start-up
    button_ready,           \* button_init returned 0
    zigbee_enabled,         \* zigbee_enable() has been called
    main_ret,               \* "running", or the value main returned
    \* ---- twim_write / twim_read (07_nrfx_twim.c) ----
    pcW,                    \* position in twim_write / twim_read
    xfer_type,              \* "TX" in twim_write, "RX" in twim_read
    twim_xfer_done,
    twim_xfer_result,
    timeout,                \* the local countdown of the wait loop
    polls,                  \* k_usleep(100) calls of the current call
    retW,                   \* value returned by the last call
    twim_busy,              \* a transfer is in flight in the peripheral
    started,                \* nrfx_twim_xfer accepted this call's transfer
    evt_in_wait,            \* status the handler recorded during the wait
    \* ---- ZB_ZDO_SIGNAL_LEAVE in zboss_signal_handler (main.c) ----
    leaves,                 \* leave signals handled so far
    rebooted,               \* sys_reboot has been called
    \* ---- 03_i2c_raw_100k.c main: identity read, then measurements ----
    pc03,                   \* the call main is in: "serial" or "measure"
    step03,                 \* position inside that call
    log03,                  \* the bus traffic and sleeps so far, in order
    ret03,                  \* what the last call returned
    rx03,                   \* buf: the 6 bytes the call has read
    out03,                  \* the value the call has composed, <<>> if none
    iter03                  \* passes of the measuring loop

buttonVars == <<now, pin, button_pressed_state, button_press_time,
                long_press_handled, debounce_work, factory_reset_work,
                nextEdge, bootPin, edgeLog, reads, resets, burst,
                transitions>>
recoveryVars == <<pc05, attempt, ret, verdict, busLog, iter, buf05>>
threadVars == <<sensor_mutex, pcT, alarms, sht_sample, signals>>
batteryVars == <<pcB, vbat_enable, adc_ready, out_cfg_ok, samples,
                 avg_sample, battery_mv, retB>>
measureVars == <<pcM, prog, raw_temp, raw_hum, temp_milli, hum_milli>>
scanVars == <<pcS, i2c_ready, acks, addr, found, reported, probed, pass>>

crcVars == <<pcC, sent, noise, buf, crc1, crc2, warn, retC>>
bootVars == <<pcI, hw, button_ready, zigbee_enabled, main_ret>>
twimVars == <<pcW, xfer_type, twim_xfer_done, twim_xfer_result, timeout,
              polls, retW, twim_busy, started, evt_in_wait>>
leaveVars == <<leaves, rebooted>>
exchVars == <<pc03, step03, log03, ret03, rx03, out03, iter03>>

vars == <<buttonVars, recoveryVars, threadVars, dev_ctx, batteryVars,
          measureVars, scanVars, crcVars, bootVars, twimVars, leaveVars,
          exchVars>>

notButton == <<recoveryVars, threadVars, dev_ctx, batteryVars, measureVars,
               scanVars, crcVars, bootVars, twimVars, leaveVars, exchVars>>
notRecovery == <<buttonVars, threadVars, dev_ctx, batteryVars, measureVars,
                 scanVars, crcVars, bootVars, twimVars, leaveVars, exchVars>>
notSensor == <<buttonVars, recoveryVars, batteryVars, measureVars, scanVars,
               crcVars, bootVars, twimVars, leaveVars, exchVars>>
notBattery == <<buttonVars, recoveryVars, threadVars, measureVars, scanVars,
                crcVars, bootVars, twimVars, leaveVars, exchVars>>
notMeasure == <<buttonVars, recoveryVars, threadVars, dev_ctx, batteryVars,
                scanVars, crcVars, bootVars, twimVars, leaveVars, exchVars>>
notScan == <<buttonVars, recoveryVars, threadVars, dev_ctx, batteryVars,
             measureVars, crcVars, bootVars, twimVars, leaveVars, exchVars>>
notCrc == <<buttonVars, recoveryVars, threadVars, dev_ctx, batteryVars,
            measureVars, scanVars, bootVars, twimVars, leaveVars, exchVars>>
notBoot == <<buttonVars, recoveryVars, threadVars, batteryVars, measureVars,
             scanVars, crcVars, twimVars, leaveVars, exchVars>>
notTwim == <<buttonVars, recoveryVars, threadVars, dev_ctx, batteryVars,
             measureVars, scanVars, crcVars, bootVars, leaveVars, exchVars>>
notLeave == <<buttonVars, recoveryVars, threadVars, dev_ctx, batteryVars,
              measureVars, scanVars, crcVars, bootVars, twimVars, exchVars>>
notExch == <<buttonVars, recoveryVars, threadVars, dev_ctx, batteryVars,
             measureVars, scanVars, crcVars, bootVars, twimVars, leaveVars>>

(***************************************************************************)
(* Parked values: a component that a specification does not run.           *)
(***************************************************************************)
ButtonParked ==
    /\ now = 0 /\ pin = 0 /\ button_pressed_state = FALSE
    /\ button_press_time = 0 /\ long_press_handled = FALSE
    /\ debounce_work = {} /\ factory_reset_work = {} /\ nextEdge = {}
    /\ bootPin = 0 /\ edgeLog = <<>> /\ reads = 0 /\ resets = 0
    /\ burst = [edges |-> 0, runs |-> 0, trans |-> 0, start |-> FALSE]
    /\ transitions = 0

RecoveryParked ==
    /\ pc05 = "off" /\ attempt = 0 /\ ret = 0 /\ verdict = "none"
    /\ busLog = <<>> /\ iter = 0 /\ buf05 = <<>>

ThreadsParked ==
    /\ sensor_mutex = "none" /\ pcT = <<>> /\ alarms = 0
    /\ sht_sample = <<>> /\ signals = 0

DevCtxParked == dev_ctx = <<>>

BatteryParked ==
    /\ pcB = "off" /\ vbat_enable = "GPIO_INPUT" /\ adc_ready = TRUE
    /\ out_cfg_ok = TRUE /\ samples = <<>> /\ avg_sample = 0
    /\ battery_mv = 0 /\ retB = 0

MeasureParked ==
    /\ pcM = "off" /\ prog = "none" /\ raw_temp = 0 /\ raw_hum = 0
    /\ temp_milli = 0 /\ hum_milli = 0

ScanParked ==
    /\ pcS = "off" /\ i2c_ready = TRUE /\ acks = {} /\ addr = 0
    /\ found = 0 /\ reported = {} /\ probed = <<>> /\ pass = 0

CrcParked ==
    /\ pcC = "off" /\ sent = <<>> /\ noise = -1 /\ buf = <<>>
    /\ crc1 = 0 /\ crc2 = 0 /\ warn = {} /\ retC = 0

BootParked ==
    /\ pcI = "off" /\ hw = <<>> /\ button_ready = FALSE
    /\ zigbee_enabled = FALSE /\ main_ret = "running"

TwimParked ==
    /\ pcW = "off" /\ xfer_type = "none" /\ twim_xfer_done = FALSE
    /\ twim_xfer_result = "0" /\ timeout = 0 /\ polls = 0
    /\ retW = "none" /\ twim_busy = FALSE /\ started = FALSE
    /\ evt_in_wait = "none"

LeaveParked == leaves = 0 /\ rebooted = FALSE

ExchParked ==
    /\ pc03 = "off" /\ step03 = "off" /\ log03 = <<>> /\ ret03 = 0
    /\ rx03 = <<>> /\ out03 = <<>> /\ iter03 = 0

(***************************************************************************)
(* C arithmetic                                                            *)
(***************************************************************************)
Abs(x) == IF x < 0 THEN -x ELSE x

\* C integer division truncates toward zero.
CDiv(a, b) == IF (a >= 0) = (b > 0) THEN Abs(a) \div Abs(b) ELSE -(Abs(a) \div Abs(b))

MinOf(S) == CHOOSE x \in S : \A y \in S : x <= y

(***************************************************************************)
(* Reset button                                                            *)
(***************************************************************************)
BUTTON_DEBOUNCE_MS == 100
BUTTON_SHORT_PRESS_MAX_MS == 1000
BUTTON_FACTORY_RESET_MS == 5000

\* Number of pin edges the environment produces in one run.
MaxEdges == 4

\* Times (ms) between two pin edges, and from boot to the first edge.
EdgeGaps == {50, 400, 1000, 5000, 6000}

\* Times (ms) from the first pin edge of a run to the second: how long the
\* first press (or, booted with the button held, the first pause) lasts.
HoldGaps ==
    {1, 50, 99, 100, 101, 400, 999, 1000, 1001, 4899, 4900, 4999, 5000,
     5050, 5100, 5101, 6000}

\* The gaps that may follow the n-th edge.
GapsAfter(n) == IF n = 1 THEN HoldGaps ELSE EdgeGaps

\* k_work_reschedule / k_work_schedule / k_work_cancel_delayable on a
\* delayable work item, as the set of its pending deadlines.
k_work_reschedule(work, delay) == {now + delay}
k_work_schedule(work, delay) == IF work = {} THEN {now + delay} ELSE work

NoBurst == [edges |-> 0, runs |-> 0, trans |-> 0, start |-> FALSE]

\* button_init, with the pin at level p.
button_init_no_suppress(p) ==
    /\ pin = p
    /\ bootPin = p
    /\ button_pressed_state = (p = 1)
    /\ long_press_handled = FALSE
    /\ button_press_time = 0
    /\ debounce_work = {}
    /\ factory_reset_work = {}

button_init(p) ==
    /\ pin = p
    /\ bootPin = p
    /\ button_pressed_state = (p = 1)
    /\ long_press_handled = (p = 1)
    /\ button_press_time = 0
    /\ debounce_work = {}
    /\ factory_reset_work = {}

InitButton ==
    /\ now = 0
    /\ \E p \in {0, 1} : button_init(p)
    /\ \E d \in EdgeGaps : nextEdge = {d}
    /\ edgeLog = <<>>
    /\ reads = 0
    /\ resets = 0
    /\ burst = NoBurst
    /\ transitions = 0
    /\ CrcParked /\ BootParked /\ TwimParked /\ LeaveParked /\ ExchParked
    /\ RecoveryParked /\ ThreadsParked /\ DevCtxParked /\ BatteryParked
    /\ MeasureParked /\ ScanParked

\* The interrupt handler: on any edge, (re)start the debounce delay.  It
\* does nothing else.
button_callback_schedule_once ==
    /\ debounce_work' = k_work_schedule(debounce_work, BUTTON_DEBOUNCE_MS)
    /\ UNCHANGED <<button_pressed_state, button_press_time,
                   long_press_handled, factory_reset_work, reads, resets>>

button_callback_cancels_timer ==
    /\ debounce_work' = k_work_reschedule(debounce_work, BUTTON_DEBOUNCE_MS)
    /\ factory_reset_work' = {}
    /\ UNCHANGED <<button_pressed_state, button_press_time,
                   long_press_handled, reads, resets>>

button_callback ==
    /\ debounce_work' = k_work_reschedule(debounce_work, BUTTON_DEBOUNCE_MS)
    /\ UNCHANGED <<button_pressed_state, button_press_time,
                   long_press_handled, factory_reset_work, reads, resets>>

\* The pin changes level and the GPIO interrupt calls button_callback.
PinEdge ==
    /\ nextEdge = {now}
    /\ pin' = 1 - pin
    /\ button_callback
    /\ edgeLog' = Append(edgeLog, now)
    /\ IF Len(edgeLog) + 1 < MaxEdges
         THEN \E d \in GapsAfter(Len(edgeLog) + 1) : nextEdge' = {now + d}
         ELSE nextEdge' = {}
    /\ burst' = IF Len(edgeLog) > 0
                   /\ now - edgeLog[Len(edgeLog)] < BUTTON_DEBOUNCE_MS
                THEN [burst EXCEPT !.edges = @ + 1]
                ELSE [edges |-> 1, runs |-> 0, trans |-> 0,
                      start |-> button_pressed_state]
    /\ UNCHANGED <<now, bootPin, transitions>>
    /\ UNCHANGED notButton

\* factory_reset_handler: the long-press work item.
factory_reset_handler_released ==
    /\ factory_reset_work = {now}
    /\ factory_reset_work' = {}
    /\ IF pin = 0
         THEN /\ long_press_handled' = TRUE
              /\ resets' = resets + 1
         ELSE UNCHANGED <<long_press_handled, resets>>
    /\ UNCHANGED <<now, pin, button_pressed_state, button_press_time,
                   debounce_work, nextEdge, bootPin, edgeLog, reads, burst,
                   transitions>>
    /\ UNCHANGED notButton

factory_reset_handler ==
    /\ factory_reset_work = {now}
    /\ factory_reset_work' = {}
    /\ IF pin = 1
         THEN /\ long_press_handled' = TRUE
              /\ resets' = resets + 1
         ELSE UNCHANGED <<long_press_handled, resets>>
    /\ UNCHANGED <<now, pin, button_pressed_state, button_press_time,
                   debounce_work, nextEdge, bootPin, edgeLog, reads, burst,
                   transitions>>
    /\ UNCHANGED notButton

\* hold_time of debounce_handler's release branch.
hold_time_uptime == now

hold_time_plus_debounce == now - button_press_time + BUTTON_DEBOUNCE_MS

hold_time == now - button_press_time

\* debounce_handler, press branch.
OnPress_timer_from_edge ==
    /\ button_press_time' = now
    /\ long_press_handled' = FALSE
    /\ factory_reset_work' =
           k_work_schedule(factory_reset_work,
                           BUTTON_FACTORY_RESET_MS - BUTTON_DEBOUNCE_MS)
    /\ UNCHANGED reads

OnPress ==
    /\ button_press_time' = now
    /\ long_press_handled' = FALSE
    /\ factory_reset_work' =
           k_work_schedule(factory_reset_work, BUTTON_FACTORY_RESET_MS)
    /\ UNCHANGED reads

\* debounce_handler, release branch.
OnRelease_keeps_timer ==
    /\ UNCHANGED factory_reset_work
    /\ IF long_press_handled
         THEN /\ long_press_handled' = FALSE
              /\ UNCHANGED reads
         ELSE /\ UNCHANGED long_press_handled
              /\ reads' = IF hold_time < BUTTON_SHORT_PRESS_MAX_MS
                             THEN reads + 1 ELSE reads
    /\ UNCHANGED button_press_time

OnRelease_reads_always ==
    /\ factory_reset_work' = {}
    /\ IF long_press_handled
         THEN /\ long_press_handled' = FALSE
              /\ UNCHANGED reads
         ELSE /\ UNCHANGED long_press_handled
              /\ reads' = reads + 1
    /\ UNCHANGED button_press_time

OnRelease ==
    /\ factory_reset_work' = {}
    /\ IF long_press_handled
         THEN /\ long_press_handled' = FALSE
              /\ UNCHANGED reads
         ELSE /\ UNCHANGED long_press_handled
              /\ reads' = IF hold_time < BUTTON_SHORT_PRESS_MAX_MS
                          THEN reads + 1 ELSE reads
    /\ UNCHANGED button_press_time

\* debounce_handler: the delayed check of the settled pin level.
debounce_handler ==
    /\ debounce_work = {now}
    /\ debounce_work' = {}
    /\ LET pressed == (pin = 1) IN
         IF pressed = button_pressed_state
           THEN /\ UNCHANGED <<button_pressed_state, button_press_time,
                               long_press_handled, factory_reset_work, reads>>
                /\ burst' = [burst EXCEPT !.runs = @ + 1]
                /\ UNCHANGED transitions
           ELSE /\ button_pressed_state' = pressed
                /\ IF pressed THEN OnPress ELSE OnRelease
                /\ burst' = [burst EXCEPT !.runs = @ + 1, !.trans = @ + 1]
                /\ transitions' = transitions + 1
    /\ UNCHANGED <<now, pin, nextEdge, bootPin, edgeLog, resets>>
    /\ UNCHANGED notButton

\* Uptime moves on to the next deadline or pin edge.
Pending == debounce_work \cup factory_reset_work \cup nextEdge

Advance ==
    /\ Pending # {}
    /\ \A t \in Pending : t > now
    /\ now' = MinOf(Pending)
    /\ UNCHANGED <<pin, button_pressed_state, button_press_time,
                   long_press_handled, debounce_work, factory_reset_work,
                   nextEdge, bootPin, edgeLog, reads, resets, burst,
                   transitions>>
    /\ UNCHANGED notButton

NextButton ==
    \/ PinEdge
    \/ debounce_handler
    \/ factory_reset_handler
    \/ Advance

SpecButton == InitButton /\ [][NextButton]_vars

(***************************************************************************)
(* Reset button and zboss_signal_handler's ZB_ZDO_SIGNAL_LEAVE case        *)
(***************************************************************************)
\* Leave signals the network delivers in one run.
MaxLeaves == 1

\* case ZB_ZDO_SIGNAL_LEAVE: reboot if long_press_handled is set.  The
\* signal may come at any time, from a factory reset or from the network.
zboss_signal_leave_clears_flag ==
    /\ leaves < MaxLeaves
    /\ ~rebooted
    /\ leaves' = leaves + 1
    /\ rebooted' = long_press_handled
    /\ long_press_handled' = FALSE
    /\ UNCHANGED <<now, pin, button_pressed_state, button_press_time,
                   debounce_work, factory_reset_work, nextEdge, bootPin,
                   edgeLog, reads, resets, burst, transitions>>
    /\ UNCHANGED <<recoveryVars, threadVars, dev_ctx, batteryVars,
                   measureVars, scanVars, crcVars, bootVars, twimVars,
                   exchVars>>

zboss_signal_leave ==
    /\ leaves < MaxLeaves
    /\ ~rebooted
    /\ leaves' = leaves + 1
    /\ rebooted' = long_press_handled
    /\ UNCHANGED notLeave

\* Nothing runs after sys_reboot.
NextLeave ==
    \/ ~rebooted /\ PinEdge
    \/ ~rebooted /\ debounce_handler
    \/ ~rebooted /\ factory_reset_handler
    \/ ~rebooted /\ Advance
    \/ zboss_signal_leave

SpecLeave == InitButton /\ [][NextLeave]_vars

(***************************************************************************)
(* Reset button: claims                                                    *)
(***************************************************************************)
\* Booted with the button released, exactly one press and its release have
\* happened so far, d ms apart.
SinglePress(d) ==
    /\ bootPin = 0
    /\ Len(edgeLog) = 2
    /\ edgeLog[2] - edgeLog[1] = d

\* C1: a single press held 400 ms and released causes no factory reset and
\* exactly one sensor_read_only: none before the release has settled, one
\* once the debounce check of the release has run.
C1_ShortPress400 ==
    SinglePress(400) =>
        /\ resets = 0
        /\ reads = (IF debounce_work = {} THEN 1 ELSE 0)

C1_Witness ==
    SinglePress(400) /\ debounce_work = {} /\ reads = 1 /\ resets = 0

\* C2: a single press held 6000 ms and released has scheduled
\* do_factory_reset exactly once and caused no sensor read; while a first
\* press is still held there is no read and at most one factory reset.
C2_LongPress6000 ==
    /\ SinglePress(6000) => (resets = 1 /\ reads = 0)
    /\ (bootPin = 0 /\ Len(edgeLog) = 1) => (reads = 0 /\ resets <= 1)

C2_Witness ==
    SinglePress(6000) /\ debounce_work = {} /\ resets = 1 /\ reads = 0

\* C3 as claimed: after two edges less than the debounce delay apart the
\* check has run once and the button state has changed exactly once.
C3_PairChangesStateOnce ==
    (burst.edges = 2 /\ debounce_work = {}) =>
        (burst.runs = 1 /\ burst.trans = 1)

\* C3 as amended: edges less than the debounce delay apart share one
\* debounce check, which runs once after the last of them; the button state
\* changes once if the settled level differs from the state the run of edges
\* started from, and not at all if the pin is back at it.
C3_BurstCollapses ==
    (burst.edges >= 2 /\ debounce_work = {}) =>
        /\ burst.runs = 1
        /\ burst.trans = (IF (pin = 1) # burst.start THEN 1 ELSE 0)

C3_Witness ==
    burst.edges = 2 /\ debounce_work = {} /\ burst.runs = 1 /\ burst.trans = 0

\* Booted with the button held: the edges so far are a release, a press
\* after it has settled, and the release of that press d ms later, settled.
PressAfterBootHold(d) ==
    /\ bootPin = 1
    /\ Len(edgeLog) = 3
    /\ edgeLog[2] - edgeLog[1] > BUTTON_DEBOUNCE_MS
    /\ edgeLog[3] - edgeLog[2] = d
    /\ debounce_work = {}

\* C15: booted with the button held, the state starts as pressed and, as
\* long as no settled release has been seen (however long that takes),
\* there is no sensor read and no factory reset; the first settled release
\* causes neither and leaves the handler as after a boot with the button
\* released; a later 400 ms press then causes one read and a later 6000 ms
\* press one factory reset.
C15_HeldAtBootSuppressed ==
    bootPin = 1 =>
        /\ transitions = 0 =>
              /\ button_pressed_state /\ long_press_handled
              /\ factory_reset_work = {}
              /\ reads = 0 /\ resets = 0
        /\ transitions = 1 =>
              /\ ~button_pressed_state /\ ~long_press_handled
              /\ factory_reset_work = {}
              /\ reads = 0 /\ resets = 0
        /\ PressAfterBootHold(400) => (reads = 1 /\ resets = 0)
        /\ PressAfterBootHold(6000) => (reads = 0 /\ resets = 1)

\* Held for 6000 ms from boot, then released, and the release has settled.
C15_Witness ==
    /\ bootPin = 1 /\ edgeLog = <<6000>> /\ transitions = 1
    /\ now = 6100 /\ reads = 0 /\ resets = 0

\* C16: a step in which the pin-edge interrupt runs sets the debounce check
\* to run BUTTON_DEBOUNCE_MS later and leaves the pressed state, the press
\* timestamp, the long-press flag, the long-press timer and the counts of
\* sensor reads and factory resets as they were.
C16_EdgeOnlySchedulesDebounce ==
    [][edgeLog' # edgeLog =>
         /\ debounce_work' = {now + BUTTON_DEBOUNCE_MS}
         /\ UNCHANGED <<button_pressed_state, button_press_time,
                        long_press_handled, factory_reset_work, reads,
                        resets, transitions>>]_vars

\* The release edge of a settled press has just been handled: the long-press
\* timer is still armed and the state still says pressed.
C16_Witness ==
    /\ Len(edgeLog) = 2 /\ now = edgeLog[2] /\ pin = 0
    /\ debounce_work = {now + BUTTON_DEBOUNCE_MS}
    /\ factory_reset_work # {} /\ button_pressed_state

\* Booted with the button released, one press and its release have happened
\* so far and the release has had its debounce check.
SettledPress ==
    /\ bootPin = 0
    /\ Len(edgeLog) = 2
    /\ debounce_work = {}

\* How long that press was held, from pin edge to pin edge.
HeldFor == edgeLog[2] - edgeLog[1]

\* C27 as claimed: every first press held for less than 1000 ms, however
\* short, has caused a sensor read once its release has settled.
C27_EveryShortHoldReads ==
    (SettledPress /\ HeldFor < BUTTON_SHORT_PRESS_MAX_MS) => reads = 1

\* C27 as amended: a first press held for more than the 100 ms debounce
\* delay and less than 1000 ms has caused exactly one sensor read, and no
\* factory reset, once its release has settled; a press held for less than
\* the debounce delay is never seen: the state does not change and nothing
\* is triggered.
C27_SettledShortHoldReads ==
    SettledPress =>
        /\ (BUTTON_DEBOUNCE_MS < HeldFor
               /\ HeldFor < BUTTON_SHORT_PRESS_MAX_MS) =>
               (reads = 1 /\ resets = 0 /\ transitions = 2)
        /\ HeldFor < BUTTON_DEBOUNCE_MS =>
               (reads = 0 /\ resets = 0 /\ transitions = 0)

\* A press of 999 ms has been read.
C27_Witness ==
    SettledPress /\ HeldFor = 999 /\ reads = 1 /\ transitions = 2

\* Booted with the button released, the first press is still held.
FirstPressHeld == bootPin = 0 /\ Len(edgeLog) = 1

C29_LongReleaseNoAction ==
    [][(button_pressed_state /\ ~button_pressed_state'
          /\ ~long_press_handled
          /\ now - button_press_time >= BUTTON_SHORT_PRESS_MAX_MS)
        => /\ reads' = reads
           /\ resets' = resets
           /\ (SettledPress'
                 /\ HeldFor' < BUTTON_DEBOUNCE_MS + BUTTON_FACTORY_RESET_MS)
                 => (reads' = 0 /\ resets' = 0)]_vars

\* A press of 4999 ms has been released and nothing was triggered.
C29_Witness ==
    /\ SettledPress /\ HeldFor = 4999 /\ ~button_pressed_state
    /\ transitions = 2 /\ reads = 0 /\ resets = 0

\* C30: from a settled release to the next settled press the long-press
\* timer is not armed, and a factory reset is triggered only while the state
\* says pressed, 5000 ms after the settled press that the state comes from:
\* never at the deadline of an earlier, released press.
C30_ReleaseCancelsTimer ==
    /\ [](~button_pressed_state => factory_reset_work = {})
    /\ [][resets' # resets =>
             /\ button_pressed_state
             /\ now = button_press_time + BUTTON_FACTORY_RESET_MS]_vars

\* A 400 ms press, released, and 400 ms later pressed again and held: the
\* deadline of the first press has passed without a factory reset and the
\* timer of the second press is running.
\* The three fields of the button state.
ButtonState == <<button_pressed_state, button_press_time, long_press_handled>>

\* The step is a run of debounce_handler / of factory_reset_handler.
DebounceStep == debounce_work = {now} /\ debounce_work' = {}
TimerStep == factory_reset_work = {now} /\ factory_reset_work' = {}

\* C31 as claimed: every step that changes the pressed state, the press
\* timestamp or the long-press flag is a run of the debounce handler.
C31_OnlyDebounceMutates ==
    [][ButtonState' # ButtonState => DebounceStep]_vars

\* C31 as amended: the pressed state and the press timestamp change only in
\* a run of the debounce handler; the long-press flag changes outside it
\* only when the long-press timer handler finds the pin pressed and sets the
\* flag, together with the factory reset; the pin-edge interrupt and the
\* leave signal leave all three fields as they were.
C31_DebounceAndTimerMutate ==
    [][/\ <<button_pressed_state, button_press_time>>'
             # <<button_pressed_state, button_press_time>> => DebounceStep
       /\ (long_press_handled' # long_press_handled /\ ~DebounceStep) =>
             /\ TimerStep /\ pin = 1
             /\ long_press_handled' /\ resets' = resets + 1
       /\ (edgeLog' # edgeLog \/ leaves' # leaves) =>
             UNCHANGED ButtonState]_vars

\* The long-press timer has set the flag after a leave signal was ignored.
C31_Witness ==
    /\ bootPin = 0 /\ Len(edgeLog) = 1 /\ button_pressed_state
    /\ long_press_handled /\ resets = 1 /\ leaves = 1 /\ ~rebooted

\* C37: a leave signal reboots the device exactly when a button-triggered
\* factory reset has been invoked since boot: never without one, also while
\* the button is held since start-up, and always after one, also when the
\* button has been released in the meantime.
C37_RebootIffFactoryReset ==
    [][leaves' # leaves => (rebooted' <=> resets >= 1)]_vars

C30_Witness ==
    /\ bootPin = 0 /\ Len(edgeLog) = 3
    /\ edgeLog[2] - edgeLog[1] = 400 /\ edgeLog[3] - edgeLog[2] = 400
    /\ now > edgeLog[1] + BUTTON_DEBOUNCE_MS + BUTTON_FACTORY_RESET_MS
    /\ button_pressed_state /\ reads = 1 /\ resets = 0
    /\ factory_reset_work =
           {edgeLog[3] + BUTTON_DEBOUNCE_MS + BUTTON_FACTORY_RESET_MS}

(***************************************************************************)
(* 05_soft_reset.c: soft reset, then up to three identity reads            *)
(***************************************************************************)
SHT40_CMD_SOFT_RESET == 148
SHT40_CMD_READ_SERIAL == 137
SHT40_CMD_MEASURE_HIGH == 253

\* Passes of the endless measuring loop that a run follows.
MaxMeasure == 1

\* What i2c_write / i2c_read return: 0, or a negative errno (-EIO).
I2cResults == {0, -5}

BusWrite(cmd, r) == [op |-> "write", arg |-> cmd, res |-> r]
BusRead(len, r) == [op |-> "read", arg |-> len, res |-> r]
Sleep(ms) == [op |-> "sleep", arg |-> ms, res |-> 0]

\* sht40_soft_reset with the write returning w: its bus traffic.  It
\* returns 0 whatever w is.
sht40_soft_reset_returns_on_error(w) ==
    IF w # 0 THEN <<BusWrite(SHT40_CMD_SOFT_RESET, w)>>
    ELSE <<BusWrite(SHT40_CMD_SOFT_RESET, w), Sleep(10)>>

sht40_soft_reset(w) == <<BusWrite(SHT40_CMD_SOFT_RESET, w), Sleep(10)>>

\* What sht40_soft_reset returns to its caller when the write returned w.
sht40_soft_reset_ret(w) == 0

\* An exchange (command, settle delay, 6-byte read) with the write returning
\* w and the read returning r: its bus traffic and its return value.
ExchangeLog(cmd, settle, w, r) ==
    IF w # 0 THEN <<BusWrite(cmd, w)>>
    ELSE <<BusWrite(cmd, w), Sleep(settle), BusRead(6, r)>>

ExchangeRet(w, r) == IF w # 0 THEN w ELSE r

sht40_read_serial_log(w, r) == ExchangeLog(SHT40_CMD_READ_SERIAL, 1, w, r)
sht40_measure_log(w, r) == ExchangeLog(SHT40_CMD_MEASURE_HIGH, 10, w, r)

\* The 6 bytes a successful read may deliver: the words 0xBEEF 0x1234 with
\* their checksum bytes (0x92, 0x37), and the same frame with a bit flipped
\* on the way in a checksum byte or in a data byte of either word.
SerialResponses ==
    {<<190, 239, 146, 18, 52, 55>>,
     <<190, 239, 147, 18, 52, 55>>, <<190, 239, 146, 18, 52, 119>>,
     <<190, 238, 146, 18, 52, 55>>, <<190, 239, 146, 18, 60, 55>>}

\* The condition of the retry loop.
AttemptInRange_lt(a) == a < 3

AttemptInRange(a) == a <= 3

InitRecovery ==
    /\ pc05 = "step1"
    /\ attempt = 0
    /\ ret = 0
    /\ verdict = "none"
    /\ busLog = <<>>
    /\ iter = 0
    /\ buf05 = <<>>
    /\ CrcParked /\ BootParked /\ TwimParked /\ LeaveParked /\ ExchParked
    /\ ButtonParked /\ ThreadsParked /\ DevCtxParked /\ BatteryParked
    /\ MeasureParked /\ ScanParked

\* Step 1: the unconditional soft reset, then enter the loop.
Main_Step1_no_reset ==
    /\ pc05 = "step1"
    /\ attempt' = 1
    /\ pc05' = IF AttemptInRange(1) THEN "attempt" ELSE "after_loop"
    /\ UNCHANGED <<ret, verdict, iter, buf05, busLog>>
    /\ UNCHANGED notRecovery

Main_Step1 ==
    /\ pc05 = "step1"
    /\ \E w \in I2cResults : busLog' = busLog \o sht40_soft_reset(w)
    /\ attempt' = 1
    /\ pc05' = IF AttemptInRange(1) THEN "attempt" ELSE "after_loop"
    /\ UNCHANGED <<ret, verdict, iter, buf05>>
    /\ UNCHANGED notRecovery

\* The loop body without the break: a successful attempt is followed by the
\* reset and the delay like a failed one.
Main_Attempt_no_break ==
    /\ pc05 = "attempt"
    /\ \E w \in I2cResults, r \in I2cResults :
         /\ busLog' = busLog \o sht40_read_serial_log(w, r)
         /\ ret' = ExchangeRet(w, r)
         /\ IF w = 0 /\ r = 0
              THEN buf05' \in SerialResponses
              ELSE buf05' = <<>>
    /\ verdict' = IF ret' = 0 THEN "SUCCESS" ELSE verdict
    /\ pc05' = "retry"
    /\ UNCHANGED <<attempt, iter>>
    /\ UNCHANGED notRecovery

\* One pass of the loop body up to the test of ret.  sht40_read_serial
\* composes and logs the serial number from buf and returns 0 when both
\* transfers succeeded.
Main_Attempt ==
    /\ pc05 = "attempt"
    /\ \E w \in I2cResults, r \in I2cResults :
         /\ busLog' = busLog \o sht40_read_serial_log(w, r)
         /\ ret' = ExchangeRet(w, r)
         /\ IF w = 0 /\ r = 0
              THEN buf05' \in SerialResponses
              ELSE buf05' = <<>>
    /\ IF ret' = 0
         THEN verdict' = "SUCCESS" /\ pc05' = "after_loop"
         ELSE UNCHANGED verdict /\ pc05' = "retry"
    /\ UNCHANGED <<attempt, iter>>
    /\ UNCHANGED notRecovery

\* The rest of the loop body after a failed attempt, and attempt++.
Main_Retry_no_reset ==
    /\ pc05 = "retry"
    /\ busLog' = busLog \o <<Sleep(50)>>
    /\ attempt' = attempt + 1
    /\ pc05' = IF AttemptInRange(attempt + 1) THEN "attempt" ELSE "after_loop"
    /\ UNCHANGED <<ret, verdict, iter, buf05>>
    /\ UNCHANGED notRecovery

Main_Retry ==
    /\ pc05 = "retry"
    /\ \E w \in I2cResults :
         busLog' = busLog \o sht40_soft_reset(w) \o <<Sleep(50)>>
    /\ attempt' = attempt + 1
    /\ pc05' = IF AttemptInRange(attempt + 1) THEN "attempt" ELSE "after_loop"
    /\ UNCHANGED <<ret, verdict, iter, buf05>>
    /\ UNCHANGED notRecovery

\* After the loop: report failure if the last read failed.
Main_AfterLoop ==
    /\ pc05 = "after_loop"
    /\ verdict' = IF ret # 0 THEN "FAILED" ELSE verdict
    /\ pc05' = "measuring"
    /\ UNCHANGED <<attempt, ret, busLog, iter, buf05>>
    /\ UNCHANGED notRecovery

\* One pass of the endless loop: wait, soft reset, measure.
Main_Measure ==
    /\ pc05 = "measuring"
    /\ iter < MaxMeasure
    /\ \E w0 \in I2cResults, w \in I2cResults, r \in I2cResults :
         busLog' = busLog \o <<Sleep(3000)>> \o sht40_soft_reset(w0)
                          \o sht40_measure_log(w, r)
    /\ iter' = iter + 1
    /\ UNCHANGED <<pc05, attempt, ret, verdict, buf05>>
    /\ UNCHANGED notRecovery

NextRecovery ==
    \/ Main_Step1
    \/ Main_Attempt
    \/ Main_Retry
    \/ Main_AfterLoop
    \/ Main_Measure

SpecRecovery == InitRecovery /\ [][NextRecovery]_vars

(***************************************************************************)
(* 05_soft_reset.c: claims                                                 *)
(***************************************************************************)
WritesOf(cmd) ==
    {k \in 1..Len(busLog) : busLog[k].op = "write" /\ busLog[k].arg = cmd}

NAttempts == Cardinality(WritesOf(SHT40_CMD_READ_SERIAL))
NResets == Cardinality(WritesOf(SHT40_CMD_SOFT_RESET))

\* C4: the loop never makes a 4th identity read; when it is over and the
\* last (so every) attempt has failed, exactly 3 attempts were made, and
\* main has gone on, past the loop, with the failure reported.
C4_ThreeAttempts ==
    /\ NAttempts <= 3
    /\ (pc05 \in {"after_loop", "measuring"} /\ ret # 0) => NAttempts = 3
    /\ (pc05 = "measuring" /\ ret # 0) => verdict = "FAILED"

C4_Witness ==
    pc05 = "measuring" /\ ret # 0 /\ NAttempts = 3 /\ verdict = "FAILED"

C22_ResetAlwaysSettles ==
    /\ \A w \in I2cResults : sht40_soft_reset_ret(w) = 0
    /\ \A k \in WritesOf(SHT40_CMD_SOFT_RESET) :
           /\ k < Len(busLog)
           /\ busLog[k + 1] = Sleep(10)

\* A reset whose write failed, its settle delay, and the next command.
C22_Witness ==
    \E k \in WritesOf(SHT40_CMD_SOFT_RESET) :
        /\ busLog[k].res # 0
        /\ k + 2 <= Len(busLog)
        /\ busLog[k + 1] = Sleep(10)
        /\ busLog[k + 2].op = "write"

IsReset(k) ==
    /\ k \in 1..Len(busLog)
    /\ busLog[k].op = "write" /\ busLog[k].arg = SHT40_CMD_SOFT_RESET

AttemptOk(a) ==
    /\ busLog[a].res = 0
    /\ a + 2 <= Len(busLog)
    /\ busLog[a + 1] = Sleep(1)
    /\ busLog[a + 2] = BusRead(6, 0)

\* C40: once the loop has ended with a successful attempt, that attempt is
\* the first successful one and the last one made: with it being attempt k
\* (1 <= k <= 3), exactly k identity reads were issued, and the recovery
\* procedure has put nothing on the bus after its 6-byte read: no attempt,
\* no soft reset and no 50 ms recovery delay (what follows, if anything, is
\* the 3 s wait that opens the measurement loop).
C40_StopsAtFirstSuccess ==
    (pc05 \in {"after_loop", "measuring"} /\ ret = 0) =>
        LET A == WritesOf(SHT40_CMD_READ_SERIAL)
            n == Len(busLog)
        IN  /\ attempt \in 1..3
            /\ NAttempts = attempt
            /\ \E a \in A :
                   /\ AttemptOk(a)
                   /\ \A b \in A : b <= a /\ (b < a => ~AttemptOk(b))
                   /\ pc05 = "after_loop" => n = a + 2
                   /\ n > a + 2 => busLog[a + 3] = Sleep(3000)
                   /\ \A j \in (a + 3)..n : busLog[j] # Sleep(50)
            /\ NResets = NAttempts + iter

\* The second attempt is the first to succeed.
C40_Witness ==
    /\ pc05 = "after_loop" /\ ret = 0 /\ verdict = "SUCCESS"
    /\ attempt = 2 /\ NAttempts = 2

(***************************************************************************)
(* main.c: attribute storage and read_battery_voltage                      *)
(***************************************************************************)
ADC_VREF_MV == 600
ADC_GAIN_FACTOR == 6
VDIV_FACTOR == 2

\* ADC codes a reading can deliver into the int16_t sample buffer.
AdcCodes == {-20, 10, 15, 20, 30, 1000}

\* A steady input: five equal readings, at the ends of the int16_t range,
\* at the 12-bit full scale and around the ends of the percentage scale
\* (1707 is 3000 mV, 2560 is 4500 mV, 2100 is 3692 mV).
SteadyCodes ==
    {-32768, -100, 1706, 1707, 1711, 2100, 2559, 2560, 2565, 4095, 32767}

\* The codes the next adc_read can deliver after the readings s.
NextCodes(s) ==
    IF s = <<>> THEN AdcCodes \cup SteadyCodes
    ELSE IF s[1] \in SteadyCodes THEN {s[1]}
    ELSE AdcCodes

\* Conversions to the C types of the results.
ToUint8(x) == x % 256
ToUint16(x) == x % 65536
ToInt16(x) == ((x + 32768) % 65536) - 32768

\* clusters_attr_init: the measurement and power attributes.
clusters_attr_init ==
    [temp_measure_value |-> -32768,
     hum_measure_value |-> 65535,
     battery_voltage |-> 45,
     battery_percentage |-> 200]

\* compare_int16 and qsort(samples, 5, sizeof(int16_t), compare_int16).
compare_int16(a, b) == a - b
qsort(s) == SortSeq(s, LAMBDA a, b : compare_int16(a, b) < 0)

\* The sum of the middle three of the sorted samples (0-based 1..3).
MiddleSum_first_three(s) == s[1] + s[2] + s[3]

MiddleSum(s) == s[2] + s[3] + s[4]

AvgSample(s) == ToInt16(CDiv(MiddleSum(qsort(s)), 3))
AdcMv(avg) == CDiv(avg * ADC_VREF_MV * ADC_GAIN_FACTOR, 4095)
BatteryMv(avg) == AdcMv(avg) * VDIV_FACTOR
BatteryZcl(mv) == ToUint8(CDiv(mv, 100))
BatteryPct_no_upper_clamp(mv) ==
    LET percentage_raw == CDiv((mv - 3000) * 200, 1500) IN
    ToUint8(IF percentage_raw < 0 THEN 0 ELSE percentage_raw)

BatteryPct(mv) ==
    LET percentage_raw == CDiv((mv - 3000) * 200, 1500) IN
    ToUint8(IF percentage_raw < 0 THEN 0
            ELSE IF percentage_raw > 200 THEN 200 ELSE percentage_raw)

\* State after main has initialised the ADC and the divider pin: main
\* returns before the Zigbee stack starts unless the ADC is ready and P0.02
\* accepts GPIO_INPUT.  Whether the pin accepts GPIO_OUTPUT_ACTIVE is a
\* property of the board.
InitBattery ==
    /\ pcB = "idle"
    /\ vbat_enable = "GPIO_INPUT"
    /\ adc_ready = TRUE
    /\ out_cfg_ok \in BOOLEAN
    /\ samples = <<>>
    /\ avg_sample = 0
    /\ battery_mv = 0
    /\ retB = 0
    /\ dev_ctx = clusters_attr_init
    /\ CrcParked /\ BootParked /\ TwimParked /\ LeaveParked /\ ExchParked
    /\ ButtonParked /\ RecoveryParked /\ ThreadsParked
    /\ MeasureParked /\ ScanParked

\* Entry of read_battery_voltage up to the settling sleep.
rbv_Enter ==
    /\ pcB = "idle"
    /\ samples' = <<>>
    /\ avg_sample' = 0
    /\ battery_mv' = 0
    /\ IF ~adc_ready
         THEN retB' = 0 /\ UNCHANGED <<pcB, vbat_enable>>
         ELSE IF ~out_cfg_ok
           THEN retB' = 0 /\ UNCHANGED <<pcB, vbat_enable>>
           ELSE /\ vbat_enable' = "GPIO_OUTPUT_ACTIVE"
                /\ pcB' = "sampling"
                /\ UNCHANGED retB
    /\ UNCHANGED <<adc_ready, out_cfg_ok, dev_ctx>>
    /\ UNCHANGED notBattery

\* adc_read failed in the loop: disable the divider and return 0.
AdcReadFailed_leaves_on ==
    /\ retB' = 0
    /\ pcB' = "idle"
    /\ UNCHANGED <<vbat_enable, samples>>

AdcReadFailed ==
    /\ vbat_enable' = "GPIO_INPUT"
    /\ retB' = 0
    /\ pcB' = "idle"
    /\ UNCHANGED samples

\* One pass of the sampling loop.
rbv_Sample_zeroes_on_failure ==
    /\ pcB = "sampling"
    /\ \/ /\ AdcReadFailed
          /\ dev_ctx' = [dev_ctx EXCEPT !.battery_voltage = 0,
                                        !.battery_percentage = 0]
       \/ \E code \in NextCodes(samples) :
            /\ samples' = Append(samples, code)
            /\ pcB' = IF Len(samples) + 1 < 5 THEN "sampling" ELSE "disable"
            /\ UNCHANGED <<vbat_enable, retB, dev_ctx>>
    /\ UNCHANGED <<adc_ready, out_cfg_ok, avg_sample, battery_mv>>
    /\ UNCHANGED notBattery

rbv_Sample ==
    /\ pcB = "sampling"
    /\ \/ AdcReadFailed
       \/ \E code \in NextCodes(samples) :
            /\ samples' = Append(samples, code)
            /\ pcB' = IF Len(samples) + 1 < 5 THEN "sampling" ELSE "disable"
            /\ UNCHANGED <<vbat_enable, retB>>
    /\ UNCHANGED <<adc_ready, out_cfg_ok, avg_sample, battery_mv, dev_ctx>>
    /\ UNCHANGED notBattery

\* After the loop: the divider pin back to input.
rbv_Disable ==
    /\ pcB = "disable"
    /\ vbat_enable' = "GPIO_INPUT"
    /\ pcB' = "compute"
    /\ UNCHANGED <<adc_ready, out_cfg_ok, samples, avg_sample, battery_mv,
                   retB, dev_ctx>>
    /\ UNCHANGED notBattery

\* Sort, average, convert, store.
rbv_Compute ==
    /\ pcB = "compute"
    /\ avg_sample' = AvgSample(samples)
    /\ battery_mv' = BatteryMv(avg_sample')
    /\ dev_ctx' = [dev_ctx EXCEPT !.battery_voltage = BatteryZcl(battery_mv'),
                                  !.battery_percentage = BatteryPct(battery_mv')]
    /\ retB' = BatteryZcl(battery_mv')
    /\ pcB' = "idle"
    /\ UNCHANGED <<vbat_enable, adc_ready, out_cfg_ok, samples>>
    /\ UNCHANGED notBattery

NextBattery ==
    \/ rbv_Enter
    \/ rbv_Sample
    \/ rbv_Disable
    \/ rbv_Compute

SpecBattery == InitBattery /\ [][NextBattery]_vars

(***************************************************************************)
(* read_battery_voltage: claims                                            *)
(***************************************************************************)
RECURSIVE SumSeq(_)
SumSeq(s) == IF s = <<>> THEN 0 ELSE Head(s) + SumSeq(Tail(s))

Range(s) == {s[k] : k \in 1..Len(s)}
MaxOf(S) == CHOOSE x \in S : \A y \in S : y <= x

\* C7: outside the sampling loop (before a call, after every return, and
\* from the end of the loop on, while sorting and converting) the divider
\* pin is configured as input; it is an output only while samples are taken.
C7_DividerOffOutsideSample ==
    /\ pcB \in {"idle", "compute"} => vbat_enable = "GPIO_INPUT"
    /\ vbat_enable = "GPIO_OUTPUT_ACTIVE" =>
           (pcB \in {"sampling", "disable"} /\ Len(samples) <= 5)
    /\ pcB = "disable" => Len(samples) = 5

\* A call that ended on a failed adc_read after some samples were taken.
C7_Witness ==
    /\ pcB = "idle" /\ Len(samples) \in 1..4 /\ retB = 0
    /\ vbat_enable = "GPIO_INPUT"

\* C8: after a completed sample the averaged code is the truncated mean of
\* the five readings less one minimum and one maximum, whatever their
\* order; for [10, 20, 30, 1000, 15] that is 65 / 3 = 21, which converts
\* to 18 mV at the pin and 36 mV of battery.
C8_MiddleThreeMean ==
    (pcB = "idle" /\ Len(samples) = 5) =>
        /\ avg_sample =
               CDiv(SumSeq(samples) - MinOf(Range(samples))
                                    - MaxOf(Range(samples)), 3)
        /\ \A p \in Permutations(1..5) :
               AvgSample([k \in 1..5 |-> samples[p[k]]]) = avg_sample
        /\ samples = <<10, 20, 30, 1000, 15>> =>
               (avg_sample = 21 /\ battery_mv = 36)

C8_Witness ==
    /\ pcB = "idle" /\ samples = <<10, 20, 30, 1000, 15>>
    /\ avg_sample = 21 /\ battery_mv = 36

\* A call of read_battery_voltage has run to its end.
SampleCompleted == pcB = "idle" /\ Len(samples) = 5

\* C18: after a completed sample the stored battery voltage is the quotient
\* battery_mv / 100 itself, a value in 0 .. 255, whatever five codes the
\* int16_t buffer delivered.
C18_VoltageIsQuotient ==
    SampleCompleted =>
        /\ dev_ctx.battery_voltage = CDiv(battery_mv, 100)
        /\ dev_ctx.battery_voltage \in 0..255

\* C19: the battery percentage attribute is within 0 .. 200 at all times;
\* after a completed sample it is 0 for battery_mv <= 3000, 200 for
\* battery_mv >= 4500, the truncated quotient (mv - 3000) * 200 / 1500 in
\* between, and never smaller than the percentage of a lower voltage.
C19_PercentageScale ==
    /\ dev_ctx.battery_percentage \in 0..200
    /\ SampleCompleted =>
          LET pct == dev_ctx.battery_percentage IN
          /\ battery_mv <= 3000 => pct = 0
          /\ battery_mv >= 4500 => pct = 200
          /\ (battery_mv > 3000 /\ battery_mv < 4500) =>
                /\ pct * 1500 <= (battery_mv - 3000) * 200
                /\ (battery_mv - 3000) * 200 < (pct + 1) * 1500
          /\ \A c \in AdcCodes \cup SteadyCodes :
                BatteryMv(c) <= battery_mv => BatteryPct(BatteryMv(c)) <= pct

\* Five readings of 2100: 3692 mV, 692 * 200 / 1500 = 92 half-percent.
C19_Witness ==
    /\ SampleCompleted /\ samples = <<2100, 2100, 2100, 2100, 2100>>
    /\ battery_mv = 3692 /\ dev_ctx.battery_percentage = 92

\* C32: a call of read_battery_voltage that ends without reaching the
\* computation (the ADC is not ready, the divider cannot be enabled, or one
\* of the 5 adc_read calls fails) takes no further reading, returns 0,
\* leaves the divider pin an input and leaves the stored battery voltage
\* and percentage as they were.
C32_FailureKeepsAttributes ==
    [][(pcB \in {"idle", "sampling"} /\ pcB' = "idle") =>
         /\ retB' = 0
         /\ dev_ctx' = dev_ctx
         /\ Len(samples') <= Len(samples)
         /\ vbat_enable' = "GPIO_INPUT"]_vars

\* The third adc_read of a call failed after an earlier call had stored
\* 3.6 V and 46 %.
C32_Witness ==
    /\ pcB = "idle" /\ retB = 0 /\ Len(samples) = 2
    /\ dev_ctx.battery_voltage = 36 /\ dev_ctx.battery_percentage = 92

(***************************************************************************)
(* sht40_measure: conversion of the raw words                              *)
(***************************************************************************)
\* Raw 16-bit words of a response: the ends of the range, the humidity
\* clamps (3145/3146, 55573/55574) and the last word whose product with
\* 175000 fits 32 bits (12271).
RawWords == {0, 1, 3145, 3146, 12271, 12272, 32768, 55573, 55574, 65535}

Programs == {"03", "05"}

\* The product a * b of a < 2^18 and b < 2^16, which may need 34 bits, as
\* <<high, low>> with value high * 65536 + low and low in 0..65535.
Product(a, b) ==
    LET X == (a \div 512) * b
        Y == (a % 512) * b
        low == (X % 128) * 512 + Y
    IN  <<(X \div 128) + (low \div 65536), low % 65536>>

FitsInt32(p) == p[1] < 32768

\* The low 32 bits of p as a two's complement int.
AsInt32(p) ==
    LET w == p[1] % 65536 IN
    (IF w >= 32768 THEN w - 65536 ELSE w) * 65536 + p[2]

\* p / 65535 in 64-bit arithmetic: p = high * 65535 + (high + low).
Quot64(p) == p[1] + ((p[1] + p[2]) \div 65535)

\* (a * (int32_t)raw) / 65535 with the product of type int.  When the
\* product does not fit 32 bits the behaviour is undefined: the build
\* keeps the low 32 bits or computes with the wider exact value.
IntQuot(a, raw) ==
    LET p == Product(a, raw) IN
    IF FitsInt32(p) THEN {CDiv(AsInt32(p), 65535)}
    ELSE {CDiv(AsInt32(p), 65535), Quot64(p)}

\* (int)((aLL * (int64_t)raw) / 65535).
Int64Quot(a, raw) == {Quot64(Product(a, raw))}

ClampHum(h) == IF h < 0 THEN 0 ELSE IF h > 100000 THEN 100000 ELSE h

InitMeasure ==
    /\ pcM = "read"
    /\ prog \in Programs
    /\ raw_temp \in RawWords
    /\ raw_hum \in RawWords
    /\ temp_milli = 0
    /\ hum_milli = 0
    /\ CrcParked /\ BootParked /\ TwimParked /\ LeaveParked /\ ExchParked
    /\ ButtonParked /\ RecoveryParked /\ ThreadsParked /\ DevCtxParked
    /\ BatteryParked /\ ScanParked

\* The conversion with products of type int (03, 04, 07, 08).
sht40_measure_03 ==
    /\ pcM = "read"
    /\ prog = "03"
    /\ \E qt \in IntQuot(175000, raw_temp), qh \in IntQuot(125000, raw_hum) :
         /\ temp_milli' = -45000 + qt
         /\ hum_milli' = ClampHum(-6000 + qh)
    /\ pcM' = "done"
    /\ UNCHANGED <<prog, raw_temp, raw_hum>>
    /\ UNCHANGED notMeasure

\* The conversion with 64-bit products (05, 09).
sht40_measure_05 ==
    /\ pcM = "read"
    /\ prog = "05"
    /\ \E qt \in Int64Quot(175000, raw_temp), qh \in Int64Quot(125000, raw_hum) :
         /\ temp_milli' = -45000 + qt
         /\ hum_milli' = ClampHum(-6000 + qh)
    /\ pcM' = "done"
    /\ UNCHANGED <<prog, raw_temp, raw_hum>>
    /\ UNCHANGED notMeasure

NextMeasure ==
    \/ sht40_measure_03
    \/ sht40_measure_05

SpecMeasure == InitMeasure /\ [][NextMeasure]_vars

(***************************************************************************)
(* sht40_measure: claims                                                   *)
(***************************************************************************)
\* C9: the conversion maps raw words (0, 0) to -45.00 degrees and 0.00 %,
\* raw words (65535, 65535) to 130.00 degrees and 100.00 %, and every raw
\* humidity word to a humidity within 0..100 %.
C9_ConversionBounds ==
    pcM = "done" =>
        /\ (raw_temp = 0 /\ raw_hum = 0) =>
               (temp_milli = -45000 /\ hum_milli = 0)
        /\ (raw_temp = 65535 /\ raw_hum = 65535) =>
               (temp_milli = 130000 /\ hum_milli = 100000)
        /\ hum_milli \in 0..100000

\* The formula in exact integer arithmetic, truncating division.
ExactTemp(raw) == -45000 + Quot64(Product(175000, raw))
ExactHum(raw) == ClampHum(-6000 + Quot64(Product(125000, raw)))

\* C34: for every pair of raw words the conversion with 32-bit products
\* (03, 04, 07, 08) and the conversion with 64-bit products (05, 09) both
\* give -45000 + (175000 * raw0) / 65535 and
\* clamp(-6000 + (125000 * raw1) / 65535, 0, 100000), so they agree.
C34_ConversionsAgree ==
    pcM = "done" =>
        /\ temp_milli = ExactTemp(raw_temp)
        /\ hum_milli = ExactHum(raw_hum)

(***************************************************************************)
(* 02_i2c_scan.c: the address sweep                                        *)
(***************************************************************************)
\* Repeated passes a run follows after the first.
MaxPasses == 2

FirstAddr == 3
LastAddr == 119

\* The addresses that ACK, as the bus may be wired during a pass.
AckSets == {{}, {68}, {69}, {68, 69}, {3, 119}, {2, 68, 120}}

InitScan ==
    /\ pcS = "start"
    /\ i2c_ready \in BOOLEAN
    /\ acks \in AckSets
    /\ addr = 0
    /\ found = 0
    /\ reported = {}
    /\ probed = <<>>
    /\ pass = 0
    /\ CrcParked /\ BootParked /\ TwimParked /\ LeaveParked /\ ExchParked
    /\ ButtonParked /\ RecoveryParked /\ ThreadsParked /\ DevCtxParked
    /\ BatteryParked /\ MeasureParked

\* device_is_ready, then the first for loop is entered.
Scan_Start ==
    /\ pcS = "start"
    /\ IF i2c_ready
         THEN pcS' = "scan" /\ addr' = FirstAddr
         ELSE pcS' = "exit" /\ UNCHANGED addr
    /\ UNCHANGED <<i2c_ready, acks, found, reported, probed, pass>>
    /\ UNCHANGED notScan

\* One pass of a for loop: the zero-length write to addr, and addr++.
Scan_Probe_retries_nack ==
    /\ pcS = "scan"
    /\ LET r == IF addr \in acks THEN 0 ELSE -5 IN
         /\ found' = IF r = 0 THEN found + 1 ELSE found
         /\ reported' = IF r = 0 THEN reported \cup {addr} ELSE reported
         /\ probed' = IF r = 0 THEN Append(probed, addr)
                               ELSE probed \o <<addr, addr>>
    /\ addr' = addr + 1
    /\ pcS' = IF addr + 1 <= LastAddr THEN "scan" ELSE "report"
    /\ UNCHANGED <<i2c_ready, acks, pass>>
    /\ UNCHANGED notScan

Scan_Probe ==
    /\ pcS = "scan"
    /\ LET r == IF addr \in acks THEN 0 ELSE -5 IN
         /\ found' = IF r = 0 THEN found + 1 ELSE found
         /\ reported' = IF r = 0 THEN reported \cup {addr} ELSE reported
    /\ probed' = Append(probed, addr)
    /\ addr' = addr + 1
    /\ pcS' = IF addr + 1 <= LastAddr THEN "scan" ELSE "report"
    /\ UNCHANGED <<i2c_ready, acks, pass>>
    /\ UNCHANGED notScan

\* The count is logged after the loop.
Scan_Report ==
    /\ pcS = "report"
    /\ pass' = pass + 1
    /\ pcS' = "sleep"
    /\ UNCHANGED <<i2c_ready, acks, addr, found, reported, probed>>
    /\ UNCHANGED notScan

\* while (1): sleep 5 s (the wiring may change), found = 0, scan again.
Scan_Repeat_keeps_found ==
    /\ pcS = "sleep"
    /\ pass <= MaxPasses
    /\ acks' \in AckSets
    /\ addr' = FirstAddr
    /\ reported' = {}
    /\ probed' = <<>>
    /\ pcS' = "scan"
    /\ UNCHANGED <<i2c_ready, pass, found>>
    /\ UNCHANGED notScan

Scan_Repeat ==
    /\ pcS = "sleep"
    /\ pass <= MaxPasses
    /\ acks' \in AckSets
    /\ found' = 0
    /\ addr' = FirstAddr
    /\ reported' = {}
    /\ probed' = <<>>
    /\ pcS' = "scan"
    /\ UNCHANGED <<i2c_ready, pass>>
    /\ UNCHANGED notScan

NextScan ==
    \/ Scan_Start
    \/ Scan_Probe
    \/ Scan_Report
    \/ Scan_Repeat

SpecScan == InitScan /\ [][NextScan]_vars

(***************************************************************************)
(* 02_i2c_scan.c: claims                                                   *)
(***************************************************************************)
\* C10: at the end of every pass the addresses reported found are exactly
\* the addresses of 0x03..0x77 that ACK, and the count is their number:
\* {0x44} when only 0x44 ACKs, none and 0 when nothing ACKs.
C10_FoundIsAcked ==
    pcS \in {"report", "sleep"} =>
        /\ reported = {a \in 3..119 : a \in acks}
        /\ found = Cardinality(reported)
        /\ acks = {68} => (reported = {68} /\ found = 1)
        /\ acks = {} => (reported = {} /\ found = 0)

\* The end of a repeated pass on a bus where only 0x44 ACKs.
C10_Witness ==
    /\ pcS = "report" /\ pass >= 1
    /\ acks = {68} /\ reported = {68} /\ found = 1

\* C21: when the bus device is not ready at initialisation, the scan still
\* comes to its report and the count it reports is zero: main never ends
\* before "Scan complete: 0 device(s) found" has been logged.
C21_UnavailableReportsZero ==
    (~i2c_ready /\ pcS # "start") => (pass >= 1 /\ found = 0)

\* C26: a pass probes the addresses 0x03, 0x04, ... in ascending order, one
\* write each whether the address ACKs or not, never an address of
\* 0x00..0x02 or 0x78..0x7F, and when the pass is over every address of
\* 0x03..0x77 has been probed exactly once, 0x77 last.
C26_EachAddressOnce ==
    /\ \A k \in 1..Len(probed) : probed[k] = k + 2
    /\ \A k \in 1..Len(probed) : probed[k] \in 3..119
    /\ pcS \in {"report", "sleep"} =>
           /\ Len(probed) = 117
           /\ \A a \in 3..119 :
                  Cardinality({k \in 1..Len(probed) : probed[k] = a}) = 1
           /\ probed[Len(probed)] = 119

\* The end of a repeated pass on a bus where 0x44 ACKs and 0x43 does not.
C26_Witness ==
    /\ pcS = "report" /\ pass >= 1 /\ acks = {2, 68, 120}
    /\ Len(probed) = 117 /\ probed[65] = 67 /\ probed[66] = 68

(***************************************************************************)
(* main.c: sensor_read_only, called by the ZBOSS alarm (ZBOSS thread) and  *)
(* by the button's debounce work (system work queue thread)                *)
(***************************************************************************)
Threads == {"zboss", "sysworkq"}

\* Network signals (reboot / steering) a run delivers.
MaxSignals == 2

\* sensor_value pairs <<val1, val2>> the driver can hold after a fetch.
\* The sensor's 16-bit words span -45 .. 130 degrees and -6 .. 119 %RH
\* (T = -45 + 175 * raw / 65535, RH = -6 + 125 * raw / 65535).
TempValues == {<<21, 500000>>, <<-5, -250000>>, <<-45, 0>>, <<130, 0>>}
HumValues == {<<45, 120000>>, <<100, 0>>, <<-6, 0>>, <<119, 0>>}

\* The declared measurement ranges (MinMeasuredValue, MaxMeasuredValue).
FROSTBEE_TEMP_MIN_VALUE == -4000
FROSTBEE_TEMP_MAX_VALUE == 12500
FROSTBEE_HUM_MIN_VALUE == 0
FROSTBEE_HUM_MAX_VALUE == 10000

\* The five ADC readings of one battery sample, <<>> for a failed adc_read.
BatteryBursts == {<<>>, <<10, 20, 30, 1000, 15>>, <<2000, 2000, 2000, 2000, 2000>>}

\* k_mutex_lock(&sensor_mutex, K_FOREVER) returns once the caller owns it.
k_mutex_lock_no_wait(t) ==
    sensor_mutex' = IF sensor_mutex = "none" THEN t ELSE sensor_mutex

k_mutex_lock(t) ==
    /\ sensor_mutex = "none"
    /\ sensor_mutex' = t

k_mutex_unlock(t) ==
    sensor_mutex' = IF sensor_mutex = t THEN "none" ELSE sensor_mutex

\* The ZCL values computed from the driver's sensor_value pairs.
temp_zcl(v) == ToInt16(v[1] * 100 + CDiv(v[2], 10000))
hum_zcl(v) == ToUint16(v[1] * 100 + CDiv(v[2], 10000))

\* read_battery_voltage as one call, its five readings being s.
read_battery_voltage(ctx, s) ==
    IF Len(s) < 5 THEN ctx
    ELSE [ctx EXCEPT !.battery_voltage = BatteryZcl(BatteryMv(AvgSample(s))),
                     !.battery_percentage = BatteryPct(BatteryMv(AvgSample(s)))]

\* State after main: the sensor and the ADC are ready (main returns
\* otherwise), the attributes are initialised, the stack is started.
InitSensor ==
    /\ sensor_mutex = "none"
    /\ pcT = [t \in Threads |-> "idle"]
    /\ alarms = 0
    /\ sht_sample = [temp |-> <<0, 0>>, hum |-> <<0, 0>>]
    /\ signals = 0
    /\ dev_ctx = clusters_attr_init
    /\ CrcParked /\ BootParked /\ TwimParked /\ LeaveParked /\ ExchParked
    /\ ButtonParked /\ RecoveryParked /\ BatteryParked
    /\ MeasureParked /\ ScanParked

\* zboss_signal_handler, ZB_BDB_SIGNAL_DEVICE_REBOOT or _STEERING: with
\* status RET_OK the periodic read is scheduled.
zboss_signal_handler ==
    /\ pcT["zboss"] = "idle"
    /\ signals < MaxSignals
    /\ signals' = signals + 1
    /\ \E status_ok \in BOOLEAN :
         alarms' = IF status_ok THEN alarms + 1 ELSE alarms
    /\ UNCHANGED <<sensor_mutex, pcT, sht_sample, dev_ctx>>
    /\ UNCHANGED notSensor

\* The alarm fires: sensor_read_and_update calls sensor_read_only.
sensor_read_and_update ==
    /\ pcT["zboss"] = "idle"
    /\ alarms > 0
    /\ alarms' = alarms - 1
    /\ pcT' = [pcT EXCEPT !["zboss"] = "lock"]
    /\ UNCHANGED <<sensor_mutex, sht_sample, signals, dev_ctx>>
    /\ UNCHANGED notSensor

\* debounce_handler on a short press calls sensor_read_only.
ButtonRead ==
    /\ pcT["sysworkq"] = "idle"
    /\ pcT' = [pcT EXCEPT !["sysworkq"] = "lock"]
    /\ UNCHANGED <<sensor_mutex, alarms, sht_sample, signals, dev_ctx>>
    /\ UNCHANGED notSensor

\* sensor_read_only: take the mutex.
SRO_Lock(t) ==
    /\ pcT[t] = "lock"
    /\ k_mutex_lock(t)
    /\ pcT' = [pcT EXCEPT ![t] = "fetch"]
    /\ UNCHANGED <<alarms, sht_sample, signals, dev_ctx>>
    /\ UNCHANGED notSensor

\* sensor_read_only: device_is_ready and sensor_sample_fetch; on failure
\* unlock and return.
SRO_Fetch_returns_locked(t) ==
    /\ pcT[t] = "fetch"
    /\ \/ /\ pcT' = [pcT EXCEPT ![t] = "return"]
          /\ UNCHANGED <<sht_sample, sensor_mutex>>
       \/ /\ \E tv \in TempValues, hv \in HumValues :
               sht_sample' = [temp |-> tv, hum |-> hv]
          /\ pcT' = [pcT EXCEPT ![t] = "publish"]
          /\ UNCHANGED sensor_mutex
    /\ UNCHANGED <<alarms, signals, dev_ctx>>
    /\ UNCHANGED notSensor

SRO_Fetch(t) ==
    /\ pcT[t] = "fetch"
    /\ \/ /\ k_mutex_unlock(t)
          /\ pcT' = [pcT EXCEPT ![t] = "return"]
          /\ UNCHANGED sht_sample
       \/ /\ \E tv \in TempValues, hv \in HumValues :
               sht_sample' = [temp |-> tv, hum |-> hv]
          /\ pcT' = [pcT EXCEPT ![t] = "publish"]
          /\ UNCHANGED sensor_mutex
    /\ UNCHANGED <<alarms, signals, dev_ctx>>
    /\ UNCHANGED notSensor

\* sensor_read_only: sensor_channel_get and the two measurement attributes.
SRO_Publish(t) ==
    /\ pcT[t] = "publish"
    /\ dev_ctx' = [dev_ctx EXCEPT
                     !.temp_measure_value = temp_zcl(sht_sample.temp),
                     !.hum_measure_value = hum_zcl(sht_sample.hum)]
    /\ pcT' = [pcT EXCEPT ![t] = "battery"]
    /\ UNCHANGED <<sensor_mutex, alarms, sht_sample, signals>>
    /\ UNCHANGED notSensor

\* sensor_read_only: read_battery_voltage, the battery attributes, unlock.
SRO_Battery(t) ==
    /\ pcT[t] = "battery"
    /\ \E s \in BatteryBursts : dev_ctx' = read_battery_voltage(dev_ctx, s)
    /\ k_mutex_unlock(t)
    /\ pcT' = [pcT EXCEPT ![t] = "return"]
    /\ UNCHANGED <<alarms, sht_sample, signals>>
    /\ UNCHANGED notSensor

\* sensor_read_and_update after sensor_read_only: schedule the next read.
SRAU_Reschedule_only_after_write ==
    /\ pcT["zboss"] = "return"
    /\ alarms' = IF dev_ctx.temp_measure_value = -32768 THEN alarms
                 ELSE alarms + 1
    /\ pcT' = [pcT EXCEPT !["zboss"] = "idle"]
    /\ UNCHANGED <<sensor_mutex, sht_sample, signals, dev_ctx>>
    /\ UNCHANGED notSensor

SRAU_Reschedule ==
    /\ pcT["zboss"] = "return"
    /\ alarms' = alarms + 1
    /\ pcT' = [pcT EXCEPT !["zboss"] = "idle"]
    /\ UNCHANGED <<sensor_mutex, sht_sample, signals, dev_ctx>>
    /\ UNCHANGED notSensor

\* debounce_handler returns after sensor_read_only.
ButtonReturn_reschedules ==
    /\ pcT["sysworkq"] = "return"
    /\ pcT' = [pcT EXCEPT !["sysworkq"] = "idle"]
    /\ alarms' = alarms + 1
    /\ UNCHANGED <<sensor_mutex, sht_sample, signals, dev_ctx>>
    /\ UNCHANGED notSensor

ButtonReturn ==
    /\ pcT["sysworkq"] = "return"
    /\ pcT' = [pcT EXCEPT !["sysworkq"] = "idle"]
    /\ UNCHANGED <<sensor_mutex, alarms, sht_sample, signals, dev_ctx>>
    /\ UNCHANGED notSensor

NextSensor ==
    \/ zboss_signal_handler
    \/ sensor_read_and_update
    \/ ButtonRead
    \/ \E t \in Threads : SRO_Lock(t)
    \/ \E t \in Threads : SRO_Fetch(t)
    \/ \E t \in Threads : SRO_Publish(t)
    \/ \E t \in Threads : SRO_Battery(t)
    \/ SRAU_Reschedule
    \/ ButtonReturn

SpecSensor == InitSensor /\ [][NextSensor]_vars

\* The ZBOSS main loop runs a due alarm and the threads keep running; a
\* thread blocked in k_mutex_lock gets the mutex when it is released
\* (k_mutex_unlock hands it to the waiter).  Signals and button presses
\* are the environment's and need not happen.
SpecSensorFair ==
    /\ SpecSensor
    /\ WF_vars(sensor_read_and_update)
    /\ \A t \in Threads :
          SF_vars(SRO_Lock(t))
    /\ \A t \in Threads :
          WF_vars(SRO_Fetch(t)) /\ WF_vars(SRO_Publish(t))
                               /\ WF_vars(SRO_Battery(t))
    /\ WF_vars(SRAU_Reschedule)

(***************************************************************************)
(* sensor_read_only: claims                                                *)
(***************************************************************************)
\* Between k_mutex_lock and k_mutex_unlock.
InSection(t) == pcT[t] \in {"fetch", "publish", "battery"}

\* C6: the alarm callback and the button work are never both between the
\* lock and the unlock of sensor_read_only; whoever is there owns the
\* mutex, so a caller that found it held has waited until it was released.
C6_MutualExclusion ==
    /\ ~(InSection("zboss") /\ InSection("sysworkq"))
    /\ \A t \in Threads : InSection(t) <=> sensor_mutex = t

\* One path is in the section while the other waits for the mutex.
C6_Witness ==
    /\ InSection("zboss") /\ pcT["sysworkq"] = "lock"
    /\ sensor_mutex = "zboss"

\* The periodic read has been scheduled or is running.
PeriodicStarted == alarms > 0 \/ pcT["zboss"] # "idle"

\* C13: a periodic cycle whose device_is_ready or sensor_sample_fetch fails
\* goes from the fetch straight to the return of sensor_read_only with the
\* attributes untouched (attributes are only written by a thread that got
\* past the fetch); sensor_read_and_update then schedules the next read
\* whatever the outcome; and once the periodic read is started, a read
\* attempt always occurs again.
C13_SkipAndKeepGoing ==
    /\ [][/\ (pcT["zboss"] = "fetch" /\ pcT'["zboss"] = "return")
               => dev_ctx' = dev_ctx
          /\ dev_ctx' # dev_ctx
               => \E t \in Threads : /\ pcT[t] \in {"publish", "battery"}
                                     /\ pcT'[t] # pcT[t]
          /\ (pcT["zboss"] = "return" /\ pcT'["zboss"] # "return")
               => (alarms' = alarms + 1 /\ pcT'["zboss"] = "idle")]_vars
    /\ PeriodicStarted ~> (pcT["zboss"] = "fetch")

\* A periodic cycle has failed: the alarm callback is back from
\* sensor_read_only and no attribute has ever been written.
C13_Witness ==
    /\ pcT["zboss"] = "return" /\ pcT["sysworkq"] = "idle"
    /\ dev_ctx = clusters_attr_init /\ alarms = 0 /\ signals = 1

\* C17: a measured value stored in the attributes (anything but the
\* "unknown" values of clusters_attr_init) lies in its declared range:
\* temperature in -4000 .. 12500, humidity in 0 .. 10000.
C17_WrittenValuesInRange ==
    /\ dev_ctx.temp_measure_value # clusters_attr_init.temp_measure_value
          => dev_ctx.temp_measure_value
                 \in FROSTBEE_TEMP_MIN_VALUE..FROSTBEE_TEMP_MAX_VALUE
    /\ dev_ctx.hum_measure_value # clusters_attr_init.hum_measure_value
          => dev_ctx.hum_measure_value
                 \in FROSTBEE_HUM_MIN_VALUE..FROSTBEE_HUM_MAX_VALUE

\* C35: no step of a button-triggered read, from the call of
\* sensor_read_only to its return, adds or removes a pending periodic-read
\* alarm or moves the alarm callback: a due alarm stays due.
C35_ButtonReadKeepsSchedule ==
    [][pcT'["sysworkq"] # pcT["sysworkq"] =>
         /\ alarms' = alarms
         /\ pcT'["zboss"] = pcT["zboss"]
         /\ (alarms > 0 /\ pcT["zboss"] = "idle") =>
                (alarms' > 0 /\ pcT'["zboss"] = "idle")]_vars

\* A button-triggered read has stored a measurement and is about to return
\* while one periodic-read alarm is pending.
C35_Witness ==
    /\ pcT["sysworkq"] = "return" /\ pcT["zboss"] = "idle"
    /\ alarms = 1 /\ signals = 1
    /\ dev_ctx.temp_measure_value = 2150

\* C38: a thread that is not between the lock and the unlock of
\* sensor_read_only does not own sensor_mutex: every path of the call,
\* the failed fetch included, has released it before the return; and each
\* caller waiting in k_mutex_lock eventually gets the mutex and each call
\* eventually returns, so the two read paths never deadlock.
C38_AlwaysUnlocksAndProgress ==
    /\ [](\A t \in Threads :
            pcT[t] \in {"idle", "lock", "return"} => sensor_mutex # t)
    /\ \A t \in Threads :
          /\ (pcT[t] = "lock") ~> (pcT[t] = "fetch")
          /\ (pcT[t] = "fetch") ~> (pcT[t] = "return")

\* The button's read failed at the fetch and has returned the mutex, and
\* the alarm callback, which was waiting, owns it now.
C38_Witness ==
    /\ pcT["sysworkq"] = "return" /\ dev_ctx = clusters_attr_init
    /\ pcT["zboss"] = "fetch" /\ sensor_mutex = "zboss"

\* Periodic-read alarms pending, the one being served included.
PeriodicChains == alarms + (IF pcT["zboss"] = "idle" THEN 0 ELSE 1)

\* C36: whatever network signals arrive, at most one periodic-read alarm is
\* pending or being served at any time.
C36_AtMostOneAlarm == PeriodicChains <= 1

(***************************************************************************)
(* 03_i2c_raw_100k.c: sht40_crc8 and the checksum test of                  *)
(* sht40_read_serial                                                       *)
(***************************************************************************)
\* The sensor answers with two 16-bit words.  Every 16-bit value occurs as
\* word 0 and (the map is a bijection modulo 65536) as word 1.
ResponseWords == {<<w, (w * 7 + 13) % 65536>> : w \in 0..65535}

\* Wire corruption: no bit (-1), or one bit of the 48-bit frame.  Bit k
\* belongs to buf[k \div 8], counted from its least significant bit:
\* bits 0..15 are the data bits of word 0, bits 16..23 its checksum.
NoiseBits == {-1} \cup 0..47

\* The first words of the responses that are sent over a noisy wire
\* (0xBEEF is one of them).
NoisyWords == {w \in 0..65535 : w % 1024 = 751}

\* a ^ b on non-negative ints.
RECURSIVE Xor(_, _)
Xor(a, b) ==
    IF a = 0 THEN b
    ELSE IF b = 0 THEN a
    ELSE ((a + b) % 2) + 2 * Xor(a \div 2, b \div 2)

\* One pass of the inner loop, assigned back to the uint8_t crc.
crc8_shift_no_poly(crc) == ToUint8(crc * 2)

crc8_shift(crc) ==
    IF crc >= 128 THEN ToUint8(Xor(crc * 2, 49)) ELSE ToUint8(crc * 2)

RECURSIVE crc8_bits(_, _)
crc8_bits(crc, bit) ==
    IF bit = 8 THEN crc ELSE crc8_bits(crc8_shift(crc), bit + 1)

RECURSIVE crc8_bytes(_, _, _)
crc8_bytes(data, i, crc) ==
    IF i > Len(data) THEN crc
    ELSE crc8_bytes(data, i + 1, crc8_bits(Xor(crc, data[i]), 0))

sht40_crc8_init_zero(data) == crc8_bytes(data, 1, 0)

sht40_crc8(data) == crc8_bytes(data, 1, 255)

\* The checksum the sensor transmits (SHT4x datasheet): with the two bytes
\* read as the polynomial m(x) of degree < 16, the remainder of
\* (m(x) + 0xFF00) * x^8 divided by x^8 + x^5 + x^4 + 1 over GF(2).
RECURSIVE PolyMod(_, _)
PolyMod(r, k) ==
    IF k < 8 THEN r
    ELSE PolyMod(IF (r \div 2^k) % 2 = 1
                 THEN Xor(r \div 2^(k - 8), 305) * 2^(k - 8) + (r % 2^(k - 8))
                 ELSE r,
                 k - 1)

SensorCrc(hi, lo) == PolyMod(Xor(hi * 256 + lo, 65280) * 256, 23)

SensorFrame(words) ==
    LET hi(w) == w \div 256
        lo(w) == w % 256
    IN  <<hi(words[1]), lo(words[1]), SensorCrc(hi(words[1]), lo(words[1])),
          hi(words[2]), lo(words[2]), SensorCrc(hi(words[2]), lo(words[2]))>>

FlipBit(byte, b) ==
    IF (byte \div 2^b) % 2 = 1 THEN byte - 2^b ELSE byte + 2^b

Corrupt(frame, k) ==
    IF k = -1 THEN frame
    ELSE [frame EXCEPT ![(k \div 8) + 1] = FlipBit(@, k % 8)]

\* One call meets a response and the corruption of its transfer: every
\* response over a clean wire, the NoisyWords ones with every single bit
\* flipped.
InitCrc ==
    /\ pcC = "call"
    /\ \E ws \in ResponseWords, k \in NoiseBits :
          /\ k = -1 \/ ws[1] \in NoisyWords
          /\ sent = ws
          /\ noise = k
    /\ buf = <<>>
    /\ crc1 = 0
    /\ crc2 = 0
    /\ warn = {}
    /\ retC = 0
    /\ ButtonParked /\ RecoveryParked /\ ThreadsParked /\ DevCtxParked
    /\ BatteryParked /\ MeasureParked /\ ScanParked /\ BootParked
    /\ TwimParked /\ LeaveParked /\ ExchParked

\* sht40_read_serial of 03_i2c_raw_100k.c, one call.
sht40_read_serial ==
    /\ pcC = "call"
    /\ pcC' = "done"
    /\ \/ \E w \in I2cResults \ {0} :
            /\ retC' = w
            /\ UNCHANGED <<buf, crc1, crc2, warn>>
       \/ \E r \in I2cResults \ {0} :
            /\ retC' = r
            /\ UNCHANGED <<buf, crc1, crc2, warn>>
       \/ /\ buf' = Corrupt(SensorFrame(sent), noise)
          /\ crc1' = sht40_crc8(SubSeq(buf', 1, 2))
          /\ crc2' = sht40_crc8(SubSeq(buf', 4, 5))
          /\ warn' = {i \in {1, 2} :
                        IF i = 1 THEN crc1' # buf'[3] ELSE crc2' # buf'[6]}
          /\ retC' = 0
    /\ UNCHANGED <<sent, noise>>
    /\ UNCHANGED notCrc

NextCrc == sht40_read_serial

SpecCrc == InitCrc /\ [][NextCrc]_vars

\* ---- claims about the checksum ----

\* C11: whenever sht40_read_serial has checked a response, crc1 is the
\* CRC-8 (polynomial 0x31, initial value 0xFF, MSB first, no final XOR) of
\* bytes 0-1 and crc2 that of bytes 3-4, each whatever the other word is,
\* and a mismatch is logged for a word exactly when its checksum byte
\* (byte 2, byte 5) differs from that value.
C11_Crc8OfEachWord ==
    (pcC = "done" /\ buf # <<>>) =>
        LET c1 == SensorCrc(buf[1], buf[2])
            c2 == SensorCrc(buf[4], buf[5])
        IN  /\ crc1 = c1
            /\ crc2 = c2
            /\ (1 \in warn) = (buf[3] # c1)
            /\ (2 \in warn) = (buf[6] # c2)

\* The datasheet's example: the word 0xBEEF has checksum 0x92.
C11_Witness ==
    /\ pcC = "done" /\ buf # <<>>
    /\ buf[1] = 190 /\ buf[2] = 239 /\ crc1 = 146 /\ warn = {}

\* C12: flipping any one of the 16 bits of a data word changes sht40_crc8,
\* so a response that had one data bit of a word flipped on the wire is
\* logged as a mismatch on that word.
C12_SingleBitFlipDetected ==
    (pcC = "done" /\ buf # <<>>) =>
        /\ noise = -1 =>
             \A b \in 0..15 :
                sht40_crc8(SubSeq(Corrupt(buf, b), 1, 2)) # crc1
        /\ noise \in 0..15 => 1 \in warn
        /\ noise \in 24..39 => 2 \in warn

C12_Witness ==
    /\ pcC = "done" /\ buf # <<>> /\ noise = 9 /\ sent[1] = 48879
    /\ buf[1] = 190 /\ buf[2] = 237 /\ warn = {1}

\* C24: a checksum mismatch does not abort the identity read, and the value
\* the call returns to its caller tells whether both checksum bytes
\* verified: 0 exactly when no mismatch was found.
C24_ValidityReported ==
    (pcC = "done" /\ buf # <<>>) => ((retC = 0) <=> (warn = {}))

\* ---- the checksum in the recovery loop of 05_soft_reset.c ----

\* Both checksum bytes of a 6-byte response verify.
FrameValid(f) ==
    /\ sht40_crc8(SubSeq(f, 1, 2)) = f[3]
    /\ sht40_crc8(SubSeq(f, 4, 5)) = f[6]

\* C23: an attempt of the recovery loop whose response arrived without a
\* transport error but with a checksum mismatch on either word is a failed
\* attempt: its result is not 0 and the loop does not end in success on it.
C23_ChecksumMismatchRetried ==
    (buf05 # <<>> /\ ~FrameValid(buf05)) => (ret # 0 /\ verdict # "SUCCESS")

(***************************************************************************)
(* main.c: main, from reset to the start of the Zigbee stack               *)
(***************************************************************************)
\* What the hardware answers during start-up, one flag per test of main.
HwOutcomes ==
    [sht_found : BOOLEAN, sht_ready : BOOLEAN, adc_ready : BOOLEAN,
     adc_setup : BOOLEAN, gpio_ready : BOOLEAN, gpio_cfg : BOOLEAN,
     button : BOOLEAN]

InitBoot ==
    /\ pcI = "sht"
    /\ hw \in HwOutcomes
    /\ button_ready = FALSE
    /\ zigbee_enabled = FALSE
    /\ main_ret = "running"
    /\ ButtonParked /\ RecoveryParked /\ ThreadsParked /\ DevCtxParked
    /\ BatteryParked /\ MeasureParked /\ ScanParked /\ CrcParked
    /\ TwimParked /\ LeaveParked /\ ExchParked

\* main returns v: no later statement of main runs.
main_return(v) ==
    /\ main_ret' = v
    /\ pcI' = "returned"

\* DEVICE_DT_GET_ANY(sensirion_sht4x) and device_is_ready(sht).
main_sht ==
    /\ pcI = "sht"
    /\ IF hw.sht_found /\ hw.sht_ready
       THEN pcI' = "adc" /\ UNCHANGED main_ret
       ELSE main_return("-ENODEV")
    /\ UNCHANGED <<hw, button_ready, zigbee_enabled, dev_ctx>>
    /\ UNCHANGED notBoot

\* device_is_ready(adc_dev) and adc_channel_setup.
main_adc ==
    /\ pcI = "adc"
    /\ IF ~hw.adc_ready THEN main_return("-ENODEV")
       ELSE IF ~hw.adc_setup THEN main_return("-EIO")
       ELSE pcI' = "vbat" /\ UNCHANGED main_ret
    /\ UNCHANGED <<hw, button_ready, zigbee_enabled, dev_ctx>>
    /\ UNCHANGED notBoot

\* gpio_is_ready_dt(&vbat_enable) and gpio_pin_configure_dt(.., GPIO_INPUT).
main_vbat ==
    /\ pcI = "vbat"
    /\ IF ~hw.gpio_ready THEN main_return("-ENODEV")
       ELSE IF ~hw.gpio_cfg THEN main_return("-EIO")
       ELSE pcI' = "button" /\ UNCHANGED main_ret
    /\ UNCHANGED <<hw, button_ready, zigbee_enabled, dev_ctx>>
    /\ UNCHANGED notBoot

\* button_init: a failure is logged and main goes on.
main_button ==
    /\ pcI = "button"
    /\ button_ready' = hw.button
    /\ pcI' = "zigbee"
    /\ UNCHANGED <<hw, zigbee_enabled, main_ret, dev_ctx>>
    /\ UNCHANGED notBoot

\* Sleepy end device configuration, clusters_attr_init, zigbee_enable;
\* main then sleeps forever.
main_zigbee_enable ==
    /\ pcI = "zigbee"
    /\ dev_ctx' = clusters_attr_init
    /\ zigbee_enabled' = TRUE
    /\ pcI' = "sleep"
    /\ UNCHANGED <<hw, button_ready, main_ret>>
    /\ UNCHANGED notBoot

NextBoot ==
    \/ main_sht
    \/ main_adc
    \/ main_vbat
    \/ main_button
    \/ main_zigbee_enable

SpecBoot == InitBoot /\ [][NextBoot]_vars

\* C14: no failure of the sensor, the ADC, the divider GPIO or the button
\* makes main give up: main never returns, and once it is past its
\* initialisation the Zigbee stack has been started.
C14_NoErrorStopsStartup ==
    /\ main_ret = "running"
    /\ pcI \in {"sleep", "returned"} => zigbee_enabled

(***************************************************************************)
(* 07_nrfx_twim.c: twim_write and twim_read, and the TWIM event handler    *)
(* that interrupts them                                                    *)
(***************************************************************************)
\* int timeout = 1000;
TWIM_POLLS == 1000

\* The events of nrfx_twim_evt_t the handler distinguishes, and the status
\* it records for each.
TwimEvents ==
    {"NRFX_TWIM_EVT_DONE", "NRFX_TWIM_EVT_ADDRESS_NACK",
     "NRFX_TWIM_EVT_DATA_NACK", "NRFX_TWIM_EVT_BUS_ERROR"}

TwimStatus(evt) ==
    CASE evt = "NRFX_TWIM_EVT_DONE" -> "NRFX_SUCCESS"
      [] evt = "NRFX_TWIM_EVT_ADDRESS_NACK" -> "NRFX_ERROR_DRV_TWI_ERR_ANACK"
      [] evt = "NRFX_TWIM_EVT_DATA_NACK" -> "NRFX_ERROR_DRV_TWI_ERR_DNACK"
      [] OTHER -> "NRFX_ERROR_INTERNAL"

InitTwim ==
    /\ pcW = "idle"
    /\ xfer_type = "none"
    /\ twim_xfer_done = FALSE
    /\ twim_xfer_result = "0"
    /\ timeout = 0
    /\ polls = 0
    /\ retW = "none"
    /\ twim_busy = FALSE
    /\ started = FALSE
    /\ evt_in_wait = "none"
    /\ ButtonParked /\ RecoveryParked /\ ThreadsParked /\ DevCtxParked
    /\ BatteryParked /\ MeasureParked /\ ScanParked /\ CrcParked
    /\ BootParked /\ LeaveParked /\ ExchParked

\* twim_write or twim_read is called: twim_xfer_done = false.
twim_enter ==
    /\ pcW = "idle"
    /\ \E ty \in {"TX", "RX"} : xfer_type' = ty
    /\ twim_xfer_done' = FALSE
    /\ polls' = 0
    /\ started' = FALSE
    /\ evt_in_wait' = "none"
    /\ pcW' = "xfer"
    /\ UNCHANGED <<twim_xfer_result, timeout, retW, twim_busy>>
    /\ UNCHANGED notTwim

\* nrfx_twim_xfer: refused while a transfer is in flight or for a bad
\* descriptor, in which case its error is returned; otherwise the transfer
\* starts and timeout = 1000.
twim_xfer ==
    /\ pcW = "xfer"
    /\ \E err \in IF twim_busy THEN {"NRFX_ERROR_BUSY"}
                  ELSE {"NRFX_SUCCESS", "NRFX_ERROR_INVALID_ADDR"} :
         IF err # "NRFX_SUCCESS"
         THEN /\ retW' = err
              /\ pcW' = "idle"
              /\ UNCHANGED <<twim_busy, started, timeout>>
         ELSE /\ twim_busy' = TRUE
              /\ started' = TRUE
              /\ timeout' = TWIM_POLLS
              /\ pcW' = "wait"
              /\ UNCHANGED retW
    /\ UNCHANGED <<xfer_type, twim_xfer_done, twim_xfer_result, polls,
                   evt_in_wait>>
    /\ UNCHANGED notTwim

\* One test of the wait loop and, if it passes, k_usleep(100); timeout--.
twim_poll ==
    /\ pcW = "wait"
    /\ IF ~twim_xfer_done /\ timeout > 0
       THEN /\ timeout' = timeout - 1
            /\ polls' = polls + 1
            /\ UNCHANGED pcW
       ELSE /\ pcW' = "check"
            /\ UNCHANGED <<timeout, polls>>
    /\ UNCHANGED <<xfer_type, twim_xfer_done, twim_xfer_result, retW,
                   twim_busy, started, evt_in_wait>>
    /\ UNCHANGED notTwim

\* After the loop: NRFX_ERROR_TIMEOUT or twim_xfer_result.
twim_return ==
    /\ pcW = "check"
    /\ retW' = IF ~twim_xfer_done THEN "NRFX_ERROR_TIMEOUT"
               ELSE twim_xfer_result
    /\ pcW' = "idle"
    /\ UNCHANGED <<xfer_type, twim_xfer_done, twim_xfer_result, timeout,
                   polls, twim_busy, started, evt_in_wait>>
    /\ UNCHANGED notTwim

\* The TWIM interrupt: the transfer in flight ends and twim_handler records
\* its event.  It can run between any two steps of the thread.
twim_handler ==
    /\ twim_busy
    /\ twim_busy' = FALSE
    /\ twim_xfer_done' = TRUE
    /\ \E evt \in TwimEvents :
         /\ twim_xfer_result' = TwimStatus(evt)
         /\ evt_in_wait' = IF pcW \in {"wait", "check"}
                           THEN TwimStatus(evt) ELSE evt_in_wait
    /\ UNCHANGED <<pcW, xfer_type, timeout, polls, retW, started>>
    /\ UNCHANGED notTwim

NextTwim ==
    \/ twim_enter
    \/ twim_xfer
    \/ twim_poll
    \/ twim_return
    \/ twim_handler

SpecTwim == InitTwim /\ [][NextTwim]_vars

\* C20: a call of twim_write or twim_read never polls more than 1000 times;
\* when it returns from a transfer it started, it returns
\* NRFX_ERROR_TIMEOUT exactly when no completion event set the done flag
\* during the wait, and then only after all 1000 polls and with the
\* transfer left in flight, and otherwise the status the handler recorded.
C20_BoundedWaitAndStatus ==
    /\ polls <= TWIM_POLLS
    /\ (pcW = "idle" /\ started) =>
          /\ (retW = "NRFX_ERROR_TIMEOUT") = (evt_in_wait = "none")
          /\ evt_in_wait # "none" => retW = evt_in_wait
          /\ retW = "NRFX_ERROR_TIMEOUT" =>
                (polls = TWIM_POLLS /\ (twim_busy \/ twim_xfer_done))

\* C39: when a call of twim_write or twim_read that started its transfer
\* returns a status other than NRFX_ERROR_TIMEOUT, the completion event of
\* that transfer has arrived during the call's wait and the status is the
\* one that event recorded: never one left over from an earlier transfer.
C39_StatusFromOwnTransfer ==
    (pcW = "idle" /\ started /\ retW # "NRFX_ERROR_TIMEOUT") =>
        (evt_in_wait # "none" /\ retW = evt_in_wait)

(***************************************************************************)
(* 03_i2c_raw_100k.c: main calls sht40_read_serial once and then           *)
(* sht40_measure every 3 s; each call is one command / response exchange   *)
(***************************************************************************)
\* Passes of the measuring loop that a run follows.
MaxMeasure03 == 2

\* The command byte and the settle delay (ms) of the call main is in.
ExchCmd(c) ==
    IF c = "serial" THEN SHT40_CMD_READ_SERIAL ELSE SHT40_CMD_MEASURE_HIGH

ExchSettle(c) == IF c = "serial" THEN 1 ELSE 10

InitExchange ==
    /\ pc03 = "serial"
    /\ step03 = "write"
    /\ log03 = <<>>
    /\ ret03 = 0
    /\ rx03 = <<>>
    /\ out03 = <<>>
    /\ iter03 = 0
    /\ ButtonParked /\ RecoveryParked /\ ThreadsParked /\ DevCtxParked
    /\ BatteryParked /\ MeasureParked /\ ScanParked /\ CrcParked
    /\ BootParked /\ TwimParked /\ LeaveParked

\* ret = i2c_write(i2c_dev, &cmd, 1, SHT40_ADDR); if (ret != 0) return ret;
Exch_Write_ignores_error ==
    /\ step03 = "write"
    /\ \E w \in I2cResults :
         /\ log03' = Append(log03, BusWrite(ExchCmd(pc03), w))
         /\ ret03' = w
         /\ step03' = "sleep"
    /\ UNCHANGED <<pc03, rx03, out03, iter03>>
    /\ UNCHANGED notExch

Exch_Write ==
    /\ step03 = "write"
    /\ \E w \in I2cResults :
         /\ log03' = Append(log03, BusWrite(ExchCmd(pc03), w))
         /\ ret03' = w
         /\ step03' = IF w # 0 THEN "ret" ELSE "sleep"
    /\ UNCHANGED <<pc03, rx03, out03, iter03>>
    /\ UNCHANGED notExch

\* k_msleep(1) in sht40_read_serial, k_msleep(10) in sht40_measure.
Exch_Sleep ==
    /\ step03 = "sleep"
    /\ log03' = Append(log03, Sleep(ExchSettle(pc03)))
    /\ step03' = "read"
    /\ UNCHANGED <<pc03, ret03, rx03, out03, iter03>>
    /\ UNCHANGED notExch

\* ret = i2c_read(i2c_dev, buf, sizeof(buf), SHT40_ADDR);
\* if (ret != 0) return ret;
Exch_Read ==
    /\ step03 = "read"
    /\ \E r \in I2cResults :
         /\ log03' = Append(log03, BusRead(6, r))
         /\ ret03' = r
         /\ IF r # 0
              THEN step03' = "ret" /\ UNCHANGED rx03
              ELSE step03' = "compose" /\ rx03' \in SerialResponses
    /\ UNCHANGED <<pc03, out03, iter03>>
    /\ UNCHANGED notExch

\* The rest of the call: the serial number (as its two 16-bit halves) or
\* the converted measurement is composed from buf and logged; return 0.
Exch_Compose ==
    /\ step03 = "compose"
    /\ LET w0 == rx03[1] * 256 + rx03[2]
           w1 == rx03[4] * 256 + rx03[5]
       IN  IF pc03 = "serial"
             THEN out03' = <<"serial", w0, w1>>
             ELSE \E qt \in IntQuot(175000, w0), qh \in IntQuot(125000, w1) :
                    out03' = <<"measure", -45000 + qt, ClampHum(-6000 + qh)>>
    /\ ret03' = 0
    /\ step03' = "ret"
    /\ UNCHANGED <<pc03, log03, rx03, iter03>>
    /\ UNCHANGED notExch

\* Back in main: k_msleep(3000) and the next sht40_measure.
Exch_Return ==
    /\ step03 = "ret"
    /\ iter03 < MaxMeasure03
    /\ log03' = Append(log03, Sleep(3000))
    /\ pc03' = "measure"
    /\ step03' = "write"
    /\ rx03' = <<>>
    /\ out03' = <<>>
    /\ iter03' = iter03 + 1
    /\ UNCHANGED ret03
    /\ UNCHANGED notExch

NextExchange ==
    \/ Exch_Write
    \/ Exch_Sleep
    \/ Exch_Read
    \/ Exch_Compose
    \/ Exch_Return

SpecExchange == InitExchange /\ [][NextExchange]_vars

\* The k-th entry of the log is the last of its exchange: nothing follows,
\* or main's 3 s sleep before the next call.
EndsExchange(k) == k = Len(log03) \/ log03[k + 1] = Sleep(3000)

\* C33: in every identity or measurement exchange a 6-byte read comes only
\* after a successful write of the command and the settle delay of that
\* command (1 ms for 0x89, 10 ms for 0xFD), in this order; a failed write
\* and a failed read are the last step of their exchange; and a call
\* returns an error exactly when its last transfer failed, having then
\* composed no identity or measurement value.
C33_ExchangeOrder ==
    /\ \A k \in 1..Len(log03) :
          /\ log03[k].op = "read" =>
                /\ k >= 3
                /\ log03[k].arg = 6
                /\ log03[k - 2].op = "write" /\ log03[k - 2].res = 0
                /\ log03[k - 1] =
                      Sleep(IF log03[k - 2].arg = SHT40_CMD_READ_SERIAL
                              THEN 1 ELSE 10)
          /\ (log03[k].op = "write" /\ log03[k].res = 0) =>
                /\ k < Len(log03) => log03[k + 1].op = "sleep"
                /\ k + 1 < Len(log03) => log03[k + 2].op = "read"
          /\ (log03[k].op # "sleep" /\ log03[k].res # 0) => EndsExchange(k)
    /\ step03 = "ret" =>
          /\ (ret03 # 0) = (log03[Len(log03)].res # 0)
          /\ (ret03 # 0) = (out03 = <<>>)
    /\ out03 # <<>> =>
          /\ log03[Len(log03)] = BusRead(6, 0)
          /\ out03[1] = pc03

\* The identity read succeeded; the read of a later measurement failed.
C33_Witness ==
    /\ pc03 = "measure" /\ step03 = "ret" /\ iter03 = 2
    /\ ret03 # 0 /\ out03 = <<>>
    /\ log03[1] = BusWrite(SHT40_CMD_READ_SERIAL, 0)
    /\ log03[3] = BusRead(6, 0)
    /\ log03[Len(log03)] = BusRead(6, -5)
    /\ log03[Len(log03) - 1] = Sleep(10)
====
